---- MODULE Spec2Model ----
(***************************************************************************)
(* VaultX: the vault container format (vx-core/src/vault.rs), the crypto   *)
(* primitives it calls (vx-core/src/crypto.rs), the atomic storage layer   *)
(* (vx-cli/src/storage.rs) and the session cache (vx-cli/src/session.rs).  *)
(*                                                                         *)
(* Bytes are integers 0..255 and byte strings are sequences of them.  The  *)
(* files on disk, the containers and the JSON payload are modelled byte    *)
(* for byte with the layout of the source.  Argon2id and AES-256-GCM are   *)
(* library code: they are modelled by small arithmetic stand-ins that keep *)
(* the structure the callers rely on (a deterministic KDF, a counter-mode  *)
(* body of the plaintext's length, a 16 byte tag over key, nonce and body  *)
(* that is verified before any plaintext is released).                     *)
(***************************************************************************)
EXTENDS Integers, Sequences, FiniteSets, TLC

(***************************************************************************)
(* Program constants.                                                      *)
(***************************************************************************)
KEY_SIZE == 32
NONCE_SIZE == 12
SALT_SIZE == 32
HEADER_SIZE == 16
VAULT_VERSION == 1
TAG_SIZE == 16

\* b"VX01"
VAULT_MAGIC == <<86, 88, 48, 49>>

(***************************************************************************)
(* Byte-string helpers.                                                    *)
(***************************************************************************)
Byte == 0..255

Min(a, b) == IF a < b THEN a ELSE b

\* bytes[from..to) with 0-based offsets, as a Rust slice data[from..to]
Slice(bytes, from, to) == SubSeq(bytes, from + 1, to)

\* little-endian encoding of a u32 (u32::to_le_bytes)
to_le_bytes(n) ==
    << n % 256, (n \div 256) % 256, (n \div 65536) % 256, (n \div 16777216) % 256 >>

Repeat(b, n) == [i \in 1..n |-> b]

\* needle occurs in hay as a contiguous run of bytes
Contains(hay, needle) ==
    \E i \in 0..(Len(hay) - Len(needle)) :
        \A j \in 1..Len(needle) : hay[i + j] = needle[j]

(***************************************************************************)
(* Stand-in for the hash inside Argon2id and GHASH: a weighted sum of the  *)
(* bytes modulo the prime 65521, computed by halving so that no            *)
(* intermediate value leaves 32 bits.                                      *)
(***************************************************************************)
HashPrime == 65521

RECURSIVE WeightedSum(_, _, _)
WeightedSum(bytes, lo, hi) ==
    IF lo > hi THEN 0
    ELSE IF lo = hi THEN ((bytes[lo] + 1) * ((lo * lo + 7 * lo + 13) % HashPrime)) % HashPrime
    ELSE LET mid == (lo + hi) \div 2
         IN (WeightedSum(bytes, lo, mid) + WeightedSum(bytes, mid + 1, hi)) % HashPrime

Digest(bytes) == (Len(bytes) * 40503 + WeightedSum(bytes, 1, Len(bytes))) % HashPrime

\* sum of i * bytes[i]: a change of one byte changes it (i and the change are below the prime)
RECURSIVE PolySum(_, _, _)
PolySum(bytes, lo, hi) ==
    IF lo > hi THEN 0
    ELSE IF lo = hi THEN (lo * bytes[lo]) % HashPrime
    ELSE LET mid == (lo + hi) \div 2
         IN (PolySum(bytes, lo, mid) + PolySum(bytes, mid + 1, hi)) % HashPrime

(***************************************************************************)
(* crypto.rs                                                               *)
(***************************************************************************)
\* A definition made in a LET is evaluated again at every use, an operator's
\* argument once: values that are costly and used repeatedly are handed on as
\* arguments of a helper operator.

\* derive_key: Argon2id(password, salt) -> 32 bytes, deterministic
KeyBytes(h) ==
    [i \in 1..KEY_SIZE |->
        IF i % 2 = 1 THEN ((h \div 256) + 5 * i) % 256 ELSE ((h % 256) + 3 * i) % 256]

derive_key(password, salt) == KeyBytes(Digest(password \o <<0>> \o salt))

\* the counter-mode keystream: the block the key and nonce select, and its byte at i
KeyStreamBlock(key, nonce) == Digest(key \o nonce)

KeyStream(block, i) == (block + 7 * i + 1) % 256

\* the 16 byte authentication tag over key, nonce and ciphertext body
TagBytes(t, kh, nh, m) ==
    << t \div 256, t % 256, kh \div 256, kh % 256, nh \div 256, nh % 256 >>
    \o [j \in 1..(TAG_SIZE - 6) |-> (m + 17 * j) % 256]

TagOf(t, kh, nh, n) == TagBytes(t, kh, nh, (t + 3 * kh + 5 * nh + n) % HashPrime)

Tag(key, nonce, body) ==
    TagOf(PolySum(body, 1, Len(body)), Digest(key), Digest(nonce), Len(body))

Mask(plaintext, block) ==
    [i \in 1..Len(plaintext) |-> (plaintext[i] + KeyStream(block, i)) % 256]

\* Unmask as it would be if the body were released as it is stored
UnmaskNothing(body, block) == body

Unmask(body, block) ==
    [i \in 1..Len(body) |-> (body[i] + 256 - KeyStream(block, i)) % 256]

SealBody(body, key, nonce) == body \o Tag(key, nonce, body)

\* cipher.encrypt(nonce, plaintext): body of the plaintext's length, tag appended
Seal(plaintext, key, nonce) ==
    SealBody(Mask(plaintext, KeyStreamBlock(key, nonce)), key, nonce)

\* encrypt(plaintext, key); nonce_bytes is what generate_nonce() returned
encrypt(plaintext, key, nonce_bytes) ==
    [ciphertext |-> Seal(plaintext, key, nonce_bytes), nonce |-> nonce_bytes]

\* Open as it would be if the tag were not compared
OpenUnverified(body, tag, key, nonce) ==
    [ok |-> TRUE, err |-> "", value |-> Unmask(body, KeyStreamBlock(key, nonce))]

\* cipher.decrypt(nonce, ciphertext): the tag is verified before anything is released
Open(body, tag, key, nonce) ==
    IF tag # Tag(key, nonce, body)
    THEN [ok |-> FALSE, err |-> "DecryptionFailed", value |-> <<>>]
    ELSE [ok |-> TRUE, err |-> "", value |-> Unmask(body, KeyStreamBlock(key, nonce))]

\* decrypt(encrypted, key): every failure is DecryptionFailed
decrypt(encrypted, key) ==
    IF Len(encrypted.ciphertext) < TAG_SIZE
    THEN [ok |-> FALSE, err |-> "DecryptionFailed", value |-> <<>>]
    ELSE Open(SubSeq(encrypted.ciphertext, 1, Len(encrypted.ciphertext) - TAG_SIZE),
              SubSeq(encrypted.ciphertext, Len(encrypted.ciphertext) - TAG_SIZE + 1,
                     Len(encrypted.ciphertext)),
              key, encrypted.nonce)

(***************************************************************************)
(* base64 (the STANDARD engine: '+', '/', padded, canonical).              *)
(***************************************************************************)
B64Char(v) ==
    IF v < 26 THEN 65 + v
    ELSE IF v < 52 THEN 97 + (v - 26)
    ELSE IF v < 62 THEN 48 + (v - 52)
    ELSE IF v = 62 THEN 43 ELSE 47

\* the sextet a character stands for, -1 when it is not in the alphabet
B64Val(c) ==
    IF c >= 65 /\ c <= 90 THEN c - 65
    ELSE IF c >= 97 /\ c <= 122 THEN c - 97 + 26
    ELSE IF c >= 48 /\ c <= 57 THEN c - 48 + 52
    ELSE IF c = 43 THEN 62
    ELSE IF c = 47 THEN 63 ELSE -1

ByteAt(bytes, i) == IF i <= Len(bytes) THEN bytes[i] ELSE 0

\* STANDARD.encode(bytes)
B64Encode(bytes) ==
    LET n == Len(bytes)
        groups == (n + 2) \div 3
        Word(g) == 65536 * ByteAt(bytes, 3 * g + 1) + 256 * ByteAt(bytes, 3 * g + 2)
                   + ByteAt(bytes, 3 * g + 3)
        Sextet(w, c) == IF c = 0 THEN w \div 262144
                        ELSE IF c = 1 THEN (w \div 4096) % 64
                        ELSE IF c = 2 THEN (w \div 64) % 64 ELSE w % 64
    IN [k \in 1..(4 * groups) |->
            LET g == (k - 1) \div 4
                c == (k - 1) % 4
            IN IF (c = 2 /\ 3 * g + 2 > n) \/ (c = 3 /\ 3 * g + 3 > n)
               THEN 61
               ELSE B64Char(Sextet(Word(g), c))]

\* STANDARD.decode(text): [ok, bytes]; rejects a bad length, a symbol outside the
\* alphabet, misplaced padding and non-zero trailing bits
B64Decode(text) ==
    LET n == Len(text)
        groups == n \div 4
        pad == IF n = 0 THEN 0
               ELSE IF text[n] # 61 THEN 0
               ELSE IF n = 1 \/ text[n - 1] # 61 THEN 1 ELSE 2
        Val(k) == IF k > n - pad THEN 0 ELSE B64Val(text[k])
        Word(g) == 262144 * Val(4 * g + 1) + 4096 * Val(4 * g + 2)
                   + 64 * Val(4 * g + 3) + Val(4 * g + 4)
        outLen == 3 * groups - pad
        wellFormed ==
            /\ n % 4 = 0
            /\ \A k \in 1..(n - pad) : B64Val(text[k]) >= 0
            /\ pad = 1 => Val(n - 1) % 4 = 0
            /\ pad = 2 => Val(n - 2) % 16 = 0
    IN IF ~wellFormed THEN [ok |-> FALSE, bytes |-> <<>>]
       ELSE [ok |-> TRUE,
             bytes |-> [i \in 1..outLen |->
                          LET g == (i - 1) \div 3
                              c == (i - 1) % 3
                              w == Word(g)
                          IN IF c = 0 THEN w \div 65536
                             ELSE IF c = 1 THEN (w \div 256) % 256 ELSE w % 256]]

(***************************************************************************)
(* Option<u64>: None is the empty sequence, Some(t) the sequence <<t>>.    *)
(***************************************************************************)
None == <<>>
Some(t) == <<t>>
IsSome(o) == Len(o) = 1

(***************************************************************************)
(* ttl.rs: expiry arithmetic.  u64 is narrowed to the 31 bits TLC computes *)
(* with; checked_add is phrased so that the test itself cannot overflow.   *)
(***************************************************************************)
U64_MAX == 2147483647

\* calculate_expiry as it would be with a saturating addition
calculate_expiry_saturating(ttl_seconds, clock) ==
    Some(IF ttl_seconds > U64_MAX - clock THEN U64_MAX ELSE clock + ttl_seconds)

calculate_expiry(ttl_seconds, now) ==
    IF ttl_seconds > U64_MAX - now THEN None ELSE Some(now + ttl_seconds)

\* is_expired as it would be if the instant of expiry were not yet expired
is_expired_after(expires_at, clock) ==
    IF IsSome(expires_at) THEN clock > expires_at[1] ELSE FALSE

is_expired(expires_at, now) ==
    IF IsSome(expires_at) THEN now >= expires_at[1] ELSE FALSE

(***************************************************************************)
(* vault.rs: the in-memory model.  A HashMap is a function whose domain is *)
(* the set of its keys.                                                    *)
(***************************************************************************)
EmptyMap == [k \in {} |-> 0]

MapInsert(m, k, v) == [n \in (DOMAIN m) \cup {k} |-> IF n = k THEN v ELSE m[n]]


\* Vault::new()
VaultNew ==
    [version |-> VAULT_VERSION, projects |-> EmptyMap,
     ssh_identities |-> EmptyMap, ssh_servers |-> EmptyMap]

Ok(v) == [ok |-> TRUE, err |-> "", vault |-> v]
Err(e, v) == [ok |-> FALSE, err |-> e, vault |-> v]

\* init_project as it would be without the check of the name
init_project_replacing(v, name, clock) ==
    Ok([v EXCEPT !.projects =
            MapInsert(@, name, [name |-> name, secrets |-> EmptyMap, created_at |-> clock])])

\* Vault::init_project; now is ttl::current_timestamp()
init_project(vault, name, now) ==
    IF name \in DOMAIN vault.projects
    THEN Err("ProjectAlreadyExists", vault)
    ELSE Ok([vault EXCEPT !.projects =
                MapInsert(@, name, [name |-> name, secrets |-> EmptyMap, created_at |-> now])])

\* the Secret that add_secret builds from the encrypted value
NewSecret(key, encrypted, ttl_seconds, now) ==
    [key |-> key,
     encrypted_value |-> encrypted.ciphertext,
     nonce |-> encrypted.nonce,
     created_at |-> now,
     expires_at |-> IF IsSome(ttl_seconds) THEN calculate_expiry(ttl_seconds[1], now) ELSE None]

\* Vault::add_secret; nonce is what generate_nonce() returned inside crypto::encrypt
add_secret(vault, project, key, value, encryption_key, ttl_seconds, nonce, now) ==
    IF project \notin DOMAIN vault.projects
    THEN Err("ProjectNotFound", vault)
    ELSE Ok([vault EXCEPT !.projects[project].secrets =
                MapInsert(@, key, NewSecret(key, encrypt(value, encryption_key, nonce),
                                            ttl_seconds, now))])

\* the SshIdentity that add_ssh_identity builds from the encrypted seed
NewIdentity(name, public_key, encrypted, now) ==
    [name |-> name,
     public_key |-> public_key,
     encrypted_private_key |-> encrypted.ciphertext,
     nonce |-> encrypted.nonce,
     created_at |-> now]

\* add_ssh_identity as it would be if the identity were stored before the name is checked
add_ssh_identity_insert_first(v, name, public_key, private_key, encryption_key, nonce, clock) ==
    [ok |-> name \notin DOMAIN v.ssh_identities,
     err |-> IF name \in DOMAIN v.ssh_identities THEN "IdentityAlreadyExists" ELSE "",
     vault |-> [v EXCEPT !.ssh_identities =
                    MapInsert(@, name, NewIdentity(name, public_key,
                                                   encrypt(private_key, encryption_key, nonce),
                                                   clock))]]

\* Vault::add_ssh_identity
add_ssh_identity(vault, name, public_key, private_key, encryption_key, nonce, now) ==
    IF name \in DOMAIN vault.ssh_identities
    THEN Err("IdentityAlreadyExists", vault)
    ELSE Ok([vault EXCEPT !.ssh_identities =
                MapInsert(@, name, NewIdentity(name, public_key,
                                               encrypt(private_key, encryption_key, nonce), now))])

\* add_ssh_server as it would be if the server's own name were looked up among the
\* identities
add_ssh_server_checking_name(v, name, username, ip_address, identity_name, clock) ==
    IF name \notin DOMAIN v.ssh_identities /\ identity_name \notin DOMAIN v.ssh_identities
    THEN Err("IdentityNotFound", v)
    ELSE Ok([v EXCEPT !.ssh_servers =
                MapInsert(@, name, [name |-> name, username |-> username,
                                    ip_address |-> ip_address,
                                    identity_name |-> name, created_at |-> clock])])

\* add_ssh_server as it would be if a name in use were refused
add_ssh_server_unique(v, name, username, ip_address, identity_name, clock) ==
    IF identity_name \notin DOMAIN v.ssh_identities THEN Err("IdentityNotFound", v)
    ELSE IF name \in DOMAIN v.ssh_servers THEN Err("ServerAlreadyExists", v)
    ELSE Ok([v EXCEPT !.ssh_servers =
                MapInsert(@, name, [name |-> name, username |-> username,
                                    ip_address |-> ip_address,
                                    identity_name |-> identity_name, created_at |-> clock])])

\* add_ssh_server as it would be without the check of the identity
add_ssh_server_unchecked(v, name, username, ip_address, identity_name, clock) ==
    Ok([v EXCEPT !.ssh_servers =
            MapInsert(@, name, [name |-> name, username |-> username,
                                ip_address |-> ip_address,
                                identity_name |-> identity_name, created_at |-> clock])])

\* Vault::add_ssh_server
add_ssh_server(vault, name, username, ip_address, identity_name, now) ==
    IF identity_name \notin DOMAIN vault.ssh_identities
    THEN Err("IdentityNotFound", vault)
    ELSE Ok([vault EXCEPT !.ssh_servers =
                MapInsert(@, name, [name |-> name, username |-> username,
                                    ip_address |-> ip_address,
                                    identity_name |-> identity_name, created_at |-> now])])

(***************************************************************************)
(* The payload JSON, as serde_json::to_vec writes it for the derived       *)
(* Serialize of VaultData: compact, struct fields in declaration order,    *)
(* map entries in the HashMap's iteration order.  That order is not        *)
(* specified; the writer takes it as the flag rev (the keys in one fixed   *)
(* order, or in the reverse of it).  Names and texts are taken from        *)
(* characters that need no JSON escape.                                    *)
(***************************************************************************)
F_version == <<118, 101, 114, 115, 105, 111, 110>>
F_projects == <<112, 114, 111, 106, 101, 99, 116, 115>>
F_ssh_identities == <<115, 115, 104, 95, 105, 100, 101, 110, 116, 105, 116, 105, 101, 115>>
F_ssh_servers == <<115, 115, 104, 95, 115, 101, 114, 118, 101, 114, 115>>
F_name == <<110, 97, 109, 101>>
F_secrets == <<115, 101, 99, 114, 101, 116, 115>>
F_created_at == <<99, 114, 101, 97, 116, 101, 100, 95, 97, 116>>
F_key == <<107, 101, 121>>
F_encrypted_value == <<101, 110, 99, 114, 121, 112, 116, 101, 100, 95, 118, 97, 108, 117, 101>>
F_nonce == <<110, 111, 110, 99, 101>>
F_expires_at == <<101, 120, 112, 105, 114, 101, 115, 95, 97, 116>>
F_public_key == <<112, 117, 98, 108, 105, 99, 95, 107, 101, 121>>
F_encrypted_private_key ==
    <<101, 110, 99, 114, 121, 112, 116, 101, 100, 95, 112, 114, 105, 118, 97, 116, 101, 95, 107, 101, 121>>
F_username == <<117, 115, 101, 114, 110, 97, 109, 101>>
F_ip_address == <<105, 112, 95, 97, 100, 100, 114, 101, 115, 115>>
F_identity_name == <<105, 100, 101, 110, 116, 105, 116, 121, 95, 110, 97, 109, 101>>
L_null == <<110, 117, 108, 108>>

\* '"', ',', ':', '{', '}', '\'
QUOTE == 34
COMMA == 44
COLON == 58
LBRACE == 123
RBRACE == 125
BACKSLASH == 92

RECURSIVE ToDecimal(_)
ToDecimal(n) ==
    IF n < 10 THEN <<48 + n>> ELSE ToDecimal(n \div 10) \o <<48 + (n % 10)>>

JString(text) == <<QUOTE>> \o text \o <<QUOTE>>

JField(name, value) == JString(name) \o <<COLON>> \o value

RECURSIVE JoinWithCommas(_)
JoinWithCommas(parts) ==
    IF Len(parts) = 0 THEN <<>>
    ELSE IF Len(parts) = 1 THEN parts[1]
    ELSE parts[1] \o <<COMMA>> \o JoinWithCommas(Tail(parts))

JObject(fields) == <<LBRACE>> \o JoinWithCommas(fields) \o <<RBRACE>>

RECURSIVE SetToSeq(_)
SetToSeq(S) ==
    IF S = {} THEN <<>>
    ELSE LET e == CHOOSE e \in S : TRUE IN <<e>> \o SetToSeq(S \ {e})

Reverse(q) == [i \in 1..Len(q) |-> q[Len(q) + 1 - i]]

\* the order in which a HashMap with these keys is iterated
IterationOrder(keys, rev) == IF rev THEN Reverse(SetToSeq(keys)) ELSE SetToSeq(keys)

\* SecretJson as it would be if the expiry were not written
SecretJsonWithoutExpiry(s) ==
    JObject(<< JField(F_key, JString(s.key)),
               JField(F_encrypted_value, JString(B64Encode(s.encrypted_value))),
               JField(F_nonce, JString(B64Encode(s.nonce))),
               JField(F_created_at, ToDecimal(s.created_at)),
               JField(F_expires_at, L_null) >>)

\* Serialize for Secret (base64_serde, nonce_serde)
SecretJson(s) ==
    JObject(<< JField(F_key, JString(s.key)),
               JField(F_encrypted_value, JString(B64Encode(s.encrypted_value))),
               JField(F_nonce, JString(B64Encode(s.nonce))),
               JField(F_created_at, ToDecimal(s.created_at)),
               JField(F_expires_at,
                      IF IsSome(s.expires_at) THEN ToDecimal(s.expires_at[1]) ELSE L_null) >>)

\* Serialize for Project
ProjectJson(p, rev) ==
    LET order == IterationOrder(DOMAIN p.secrets, rev)
    IN JObject(<< JField(F_name, JString(p.name)),
                  JField(F_secrets,
                         JObject([i \in 1..Len(order) |->
                                    JField(order[i], SecretJson(p.secrets[order[i]]))])),
                  JField(F_created_at, ToDecimal(p.created_at)) >>)

\* Serialize for SshIdentity
SshIdentityJson(id) ==
    JObject(<< JField(F_name, JString(id.name)),
               JField(F_public_key, JString(id.public_key)),
               JField(F_encrypted_private_key, JString(B64Encode(id.encrypted_private_key))),
               JField(F_nonce, JString(B64Encode(id.nonce))),
               JField(F_created_at, ToDecimal(id.created_at)) >>)

\* Serialize for SshServerConfig
SshServerJson(sv) ==
    JObject(<< JField(F_name, JString(sv.name)),
               JField(F_username, JString(sv.username)),
               JField(F_ip_address, JString(sv.ip_address)),
               JField(F_identity_name, JString(sv.identity_name)),
               JField(F_created_at, ToDecimal(sv.created_at)) >>)

\* serde_json::to_vec(&VaultData { version, projects, ssh_identities, ssh_servers })
VaultDataJson(vault, rev) ==
    LET po == IterationOrder(DOMAIN vault.projects, rev)
        io == IterationOrder(DOMAIN vault.ssh_identities, rev)
        so == IterationOrder(DOMAIN vault.ssh_servers, rev)
    IN JObject(<< JField(F_version, ToDecimal(vault.version)),
                  JField(F_projects,
                         JObject([i \in 1..Len(po) |->
                                    JField(po[i], ProjectJson(vault.projects[po[i]], rev))])),
                  JField(F_ssh_identities,
                         JObject([i \in 1..Len(io) |->
                                    JField(io[i], SshIdentityJson(vault.ssh_identities[io[i]]))])),
                  JField(F_ssh_servers,
                         JObject([i \in 1..Len(so) |->
                                    JField(so[i], SshServerJson(vault.ssh_servers[so[i]]))])) >>)

(***************************************************************************)
(* serde_json::from_slice: first the text is parsed into a tree of nodes,  *)
(* then the derived Deserialize of VaultData reads the tree.  The parser   *)
(* accepts the JSON the writer above emits (objects, strings without       *)
(* escapes, unsigned integers, null); white space, arrays, booleans,       *)
(* escapes and signed or fractional numbers do not occur in the payloads   *)
(* of this model and are reported as syntax errors.                        *)
(***************************************************************************)
Node(t, text, n, m) == [t |-> t, s |-> text, n |-> n, m |-> m]
NullNode == Node("null", <<>>, 0, <<>>)
Parsed(v, i) == [ok |-> TRUE, v |-> v, i |-> i]
SyntaxError == [ok |-> FALSE, v |-> NullNode, i |-> 0]

At(text, i) == IF i >= 1 /\ i <= Len(text) THEN text[i] ELSE -1

IsDigit(c) == c >= 48 /\ c <= 57

\* the characters that end the scan of a string: the quote, a control character, an escape
EndsScan(c) == c = QUOTE \/ c < 32 \/ c = BACKSLASH

\* the first index from i on whose character ends the scan, 0 when there is none;
\* the text is searched sixteen characters at a time
RECURSIVE FirstEnd(_, _)
FirstEnd(text, i) ==
    IF i > Len(text) THEN 0
    ELSE IF \E j \in i..Min(i + 15, Len(text)) : EndsScan(text[j])
         THEN CHOOSE j \in i..Min(i + 15, Len(text)) :
                /\ EndsScan(text[j])
                /\ \A h \in i..(j - 1) : ~EndsScan(text[h])
    ELSE FirstEnd(text, i + 16)

QuoteAt(text, end) == IF end > 0 /\ text[end] = QUOTE THEN end ELSE 0

\* the index of the quote closing the string whose first character is at i; 0 when
\* the text ends first or the string holds a control character or an escape
ClosingQuote(text, i) == QuoteAt(text, FirstEnd(text, i))

\* the index after the run of digits that starts at i
RECURSIVE DigitsEnd(_, _)
DigitsEnd(text, i) == IF IsDigit(At(text, i)) THEN DigitsEnd(text, i + 1) ELSE i

RECURSIVE FromDecimal(_)
FromDecimal(digits) ==
    IF Len(digits) = 0 THEN 0
    ELSE 10 * FromDecimal(SubSeq(digits, 1, Len(digits) - 1)) + (digits[Len(digits)] - 48)

StringTo(text, i, close) ==
    IF At(text, i) # QUOTE \/ close = 0 THEN SyntaxError
    ELSE Parsed(Node("str", SubSeq(text, i + 1, close - 1), 0, <<>>), close + 1)

ParseString(text, i) == StringTo(text, i, ClosingQuote(text, i + 1))

NumberTo(text, i, end) ==
    IF end = i \/ (text[i] = 48 /\ end > i + 1) \/ At(text, end) \in {46, 69, 101}
    THEN SyntaxError
    ELSE Parsed(Node("num", <<>>, FromDecimal(SubSeq(text, i, end - 1)), <<>>), end)

ParseNumber(text, i) == NumberTo(text, i, DigitsEnd(text, i))

RECURSIVE ParseValue(_, _)
RECURSIVE ParseMembers(_, _, _)
RECURSIVE MembersAfterKey(_, _, _)
RECURSIVE MembersAfterValue(_, _, _, _)

ParseValue(text, i) ==
    IF At(text, i) = QUOTE THEN ParseString(text, i)
    ELSE IF IsDigit(At(text, i)) THEN ParseNumber(text, i)
    ELSE IF At(text, i) = 110
         THEN IF i + 3 <= Len(text) /\ SubSeq(text, i, i + 3) = L_null
              THEN Parsed(NullNode, i + 4) ELSE SyntaxError
    ELSE IF At(text, i) = LBRACE
         THEN IF At(text, i + 1) = RBRACE
              THEN Parsed(Node("obj", <<>>, 0, <<>>), i + 2)
              ELSE ParseMembers(text, i + 1, <<>>)
    ELSE SyntaxError

\* the members of an object from index i on, up to and including the closing brace
ParseMembers(text, i, acc) == MembersAfterKey(text, acc, ParseString(text, i))

MembersAfterKey(text, acc, key) ==
    IF ~key.ok \/ At(text, key.i) # COLON THEN SyntaxError
    ELSE MembersAfterValue(text, acc, key, ParseValue(text, key.i + 1))

MembersAfterValue(text, acc, key, value) ==
    IF ~value.ok THEN SyntaxError
    ELSE IF At(text, value.i) = COMMA
         THEN ParseMembers(text, value.i + 1, Append(acc, [k |-> key.v.s, v |-> value.v]))
    ELSE IF At(text, value.i) = RBRACE
         THEN Parsed(Node("obj", <<>>, 0, Append(acc, [k |-> key.v.s, v |-> value.v])),
                     value.i + 1)
    ELSE SyntaxError

WholeDocument(text, r) == IF r.ok /\ r.i = Len(text) + 1 THEN r ELSE SyntaxError

\* a whole document: one value and nothing after it
ParseJson(text) == WholeDocument(text, ParseValue(text, 1))

(***************************************************************************)
(* The derived Deserialize.  A struct field that is missing, doubled or of *)
(* the wrong type is an error; an unknown field is ignored; a missing      *)
(* Option field is None; ssh_servers has #[serde(default)]; a key that     *)
(* occurs twice in a map keeps its last value.                             *)
(***************************************************************************)
FieldAt(node, at) ==
    [count |-> Cardinality(at),
     v |-> IF at = {} THEN NullNode ELSE node.m[CHOOSE i \in at : TRUE].v]

\* how often the object has the field, and the value of its occurrence
Field(node, name) ==
    IF node.t # "obj" THEN [count |-> 0, v |-> NullNode]
    ELSE FieldAt(node, {i \in 1..Len(node.m) : node.m[i].k = name})

Is(f, t) == f.count = 1 /\ f.v.t = t

\* the index of the last member with the key
LastIndex(node, key) ==
    CHOOSE i \in 1..Len(node.m) :
        node.m[i].k = key /\ \A j \in (i + 1)..Len(node.m) : node.m[j].k # key

MemberKeys(node) == {node.m[i].k : i \in 1..Len(node.m)}

\* Deserialize for HashMap<String, T>, from the members deserialized as T
MapOf(node, items) ==
    [ok |-> node.t = "obj" /\ \A i \in 1..Len(items) : items[i].ok,
     value |-> [k \in MemberKeys(node) |-> items[LastIndex(node, k)].value]]

SecretOf(node, key, value, nonce, created_at, expiry, valueBytes, nonceBytes) ==
    [ok |-> /\ node.t = "obj"
            /\ Is(key, "str")
            /\ Is(value, "str") /\ valueBytes.ok
            /\ Is(nonce, "str") /\ nonceBytes.ok /\ Len(nonceBytes.bytes) = NONCE_SIZE
            /\ Is(created_at, "num")
            /\ expiry.count <= 1 /\ expiry.v.t \in {"null", "num"},
     value |-> [key |-> key.v.s,
                encrypted_value |-> valueBytes.bytes,
                nonce |-> nonceBytes.bytes,
                created_at |-> created_at.v.n,
                expires_at |-> IF expiry.v.t = "num" THEN Some(expiry.v.n) ELSE None]]

\* Deserialize for Secret (base64_serde, nonce_serde)
SecretFromJson(node) ==
    SecretOf(node, Field(node, F_key), Field(node, F_encrypted_value), Field(node, F_nonce),
             Field(node, F_created_at), Field(node, F_expires_at),
             B64Decode(Field(node, F_encrypted_value).v.s),
             B64Decode(Field(node, F_nonce).v.s))

\* Deserialize for HashMap<String, Secret>
SecretsFromJson(node) ==
    MapOf(node, [i \in 1..Len(node.m) |-> SecretFromJson(node.m[i].v)])

ProjectOf(node, name, secrets, created_at, secretMap) ==
    [ok |-> /\ node.t = "obj"
            /\ Is(name, "str")
            /\ Is(secrets, "obj") /\ secretMap.ok
            /\ Is(created_at, "num"),
     value |-> [name |-> name.v.s,
                secrets |-> secretMap.value,
                created_at |-> created_at.v.n]]

\* Deserialize for Project
ProjectFromJson(node) ==
    ProjectOf(node, Field(node, F_name), Field(node, F_secrets), Field(node, F_created_at),
              SecretsFromJson(Field(node, F_secrets).v))

\* Deserialize for HashMap<String, Project>
ProjectsFromJson(node) ==
    MapOf(node, [i \in 1..Len(node.m) |-> ProjectFromJson(node.m[i].v)])

SshIdentityOf(node, name, public_key, private_key, nonce, created_at, keyBytes, nonceBytes) ==
    [ok |-> /\ node.t = "obj"
            /\ Is(name, "str")
            /\ Is(public_key, "str")
            /\ Is(private_key, "str") /\ keyBytes.ok
            /\ Is(nonce, "str") /\ nonceBytes.ok /\ Len(nonceBytes.bytes) = NONCE_SIZE
            /\ Is(created_at, "num"),
     value |-> [name |-> name.v.s,
                public_key |-> public_key.v.s,
                encrypted_private_key |-> keyBytes.bytes,
                nonce |-> nonceBytes.bytes,
                created_at |-> created_at.v.n]]

\* Deserialize for SshIdentity
SshIdentityFromJson(node) ==
    SshIdentityOf(node, Field(node, F_name), Field(node, F_public_key),
                  Field(node, F_encrypted_private_key), Field(node, F_nonce),
                  Field(node, F_created_at),
                  B64Decode(Field(node, F_encrypted_private_key).v.s),
                  B64Decode(Field(node, F_nonce).v.s))

\* Deserialize for HashMap<String, SshIdentity>
SshIdentitiesFromJson(node) ==
    MapOf(node, [i \in 1..Len(node.m) |-> SshIdentityFromJson(node.m[i].v)])

SshServerOf(node, name, username, ip_address, identity_name, created_at) ==
    [ok |-> /\ node.t = "obj"
            /\ Is(name, "str")
            /\ Is(username, "str")
            /\ Is(ip_address, "str")
            /\ Is(identity_name, "str")
            /\ Is(created_at, "num"),
     value |-> [name |-> name.v.s,
                username |-> username.v.s,
                ip_address |-> ip_address.v.s,
                identity_name |-> identity_name.v.s,
                created_at |-> created_at.v.n]]

\* Deserialize for SshServerConfig
SshServerFromJson(node) ==
    SshServerOf(node, Field(node, F_name), Field(node, F_username), Field(node, F_ip_address),
                Field(node, F_identity_name), Field(node, F_created_at))

\* Deserialize for HashMap<String, SshServerConfig>
SshServersFromJson(node) ==
    MapOf(node, [i \in 1..Len(node.m) |-> SshServerFromJson(node.m[i].v)])

VaultDataOf(doc, version, projects, identities, servers, projectMap, identityMap, serverMap) ==
    [ok |-> /\ doc.ok /\ doc.v.t = "obj"
            /\ Is(version, "num")
            /\ Is(projects, "obj") /\ projectMap.ok
            /\ Is(identities, "obj") /\ identityMap.ok
            /\ servers.count = 0 \/ (Is(servers, "obj") /\ serverMap.ok),
     value |-> [version |-> version.v.n,
                projects |-> projectMap.value,
                ssh_identities |-> identityMap.value,
                ssh_servers |-> IF servers.count = 0 THEN EmptyMap ELSE serverMap.value]]

VaultDataFromDoc(doc) ==
    VaultDataOf(doc, Field(doc.v, F_version), Field(doc.v, F_projects),
                Field(doc.v, F_ssh_identities), Field(doc.v, F_ssh_servers),
                ProjectsFromJson(Field(doc.v, F_projects).v),
                SshIdentitiesFromJson(Field(doc.v, F_ssh_identities).v),
                SshServersFromJson(Field(doc.v, F_ssh_servers).v))

\* serde_json::from_slice::<VaultData>(json)
VaultDataFromJson(json) == VaultDataFromDoc(ParseJson(json))

(***************************************************************************)
(* vault.rs: the container.                                                *)
(*   offset 0  magic "VX01"      offset 16  salt (32)                      *)
(*   offset 4  version u32 LE    offset 48  nonce (12)                     *)
(*   offset 8  reserved (8)      offset 60  ciphertext and tag             *)
(***************************************************************************)
RESERVED_SIZE == 8

\* the output buffer: magic, version, reserved, salt, nonce, ciphertext
Container(salt, encrypted) ==
    VAULT_MAGIC \o to_le_bytes(VAULT_VERSION) \o Repeat(0, RESERVED_SIZE)
    \o salt \o encrypted.nonce \o encrypted.ciphertext

SaveWithSalt(vault, password, used, nonce, rev) ==
    Container(used, encrypt(VaultDataJson(vault, rev), derive_key(password, used), nonce))

\* save_vault_with_salt(vault, password, salt): salt is an Option; generated is what
\* crypto::generate_salt() returns when it is called, nonce what generate_nonce()
\* returns inside crypto::encrypt, rev the iteration order of the maps
save_vault_with_salt(vault, password, salt, generated, nonce, rev) ==
    SaveWithSalt(vault, password, IF IsSome(salt) THEN salt[1] ELSE generated, nonce, rev)

\* vault::save_vault(vault, password): a new salt every time
save_vault(vault, password, generated, nonce, rev) ==
    save_vault_with_salt(vault, password, None, generated, nonce, rev)

LoadErr(e, msg) == [ok |-> FALSE, err |-> e, msg |-> msg, vault |-> VaultNew]

\* the end of load_vault: the payload is deserialized and the Vault rebuilt
LoadParsed(vault_data) ==
    IF ~vault_data.ok THEN LoadErr("SerializationError", "")
    ELSE [ok |-> TRUE, err |-> "", msg |-> "",
          vault |-> [version |-> vault_data.value.version,
                     projects |-> vault_data.value.projects,
                     ssh_identities |-> vault_data.value.ssh_identities,
                     ssh_servers |-> vault_data.value.ssh_servers]]

\* LoadDecrypted as it would be if the error of decrypt were passed on as it is
LoadDecryptedUnmapped(json) ==
    IF ~json.ok THEN LoadErr("CryptoError", json.err)
    ELSE LoadParsed(VaultDataFromJson(json.value))

\* decrypt(...).map_err(|_| VaultError::AuthenticationFailed)?
LoadDecrypted(json) ==
    IF ~json.ok THEN LoadErr("AuthenticationFailed", "")
    ELSE LoadParsed(VaultDataFromJson(json.value))

\* load_vault as it would be if the version were checked before the magic
load_vault_version_first(data, password) ==
    IF Len(data) < HEADER_SIZE + SALT_SIZE + NONCE_SIZE THEN LoadErr("CorruptedVault", "")
    ELSE IF Slice(data, 4, 8) # to_le_bytes(VAULT_VERSION)
         THEN LoadErr("InvalidFormat", "Unsupported version")
    ELSE IF Slice(data, 0, 4) # VAULT_MAGIC
         THEN LoadErr("InvalidFormat", "Invalid magic bytes")
    ELSE LoadDecrypted(
            decrypt([ciphertext |-> Slice(data, HEADER_SIZE + SALT_SIZE + NONCE_SIZE, Len(data)),
                     nonce |-> Slice(data, HEADER_SIZE + SALT_SIZE,
                                     HEADER_SIZE + SALT_SIZE + NONCE_SIZE)],
                    derive_key(password, Slice(data, HEADER_SIZE, HEADER_SIZE + SALT_SIZE))))

\* load_vault as it would be if it required the reserved bytes to be zero
load_vault_reserved_checked(data, password) ==
    IF Len(data) < HEADER_SIZE + SALT_SIZE + NONCE_SIZE THEN LoadErr("CorruptedVault", "")
    ELSE IF Slice(data, 0, 4) # VAULT_MAGIC
         THEN LoadErr("InvalidFormat", "Invalid magic bytes")
    ELSE IF Slice(data, 4, 8) # to_le_bytes(VAULT_VERSION)
         THEN LoadErr("InvalidFormat", "Unsupported version")
    ELSE IF Slice(data, 8, HEADER_SIZE) # Repeat(0, RESERVED_SIZE)
         THEN LoadErr("InvalidFormat", "Reserved bytes")
    ELSE LoadDecrypted(
            decrypt([ciphertext |-> Slice(data, HEADER_SIZE + SALT_SIZE + NONCE_SIZE, Len(data)),
                     nonce |-> Slice(data, HEADER_SIZE + SALT_SIZE,
                                     HEADER_SIZE + SALT_SIZE + NONCE_SIZE)],
                    derive_key(password, Slice(data, HEADER_SIZE, HEADER_SIZE + SALT_SIZE))))

\* vault::load_vault(data, password).  The version is compared as its four
\* little-endian bytes, which is the comparison of the u32 they encode.  The
\* message of an unsupported version is kept without the number it ends with.
load_vault(data, password) ==
    IF Len(data) < HEADER_SIZE + SALT_SIZE + NONCE_SIZE THEN LoadErr("CorruptedVault", "")
    ELSE IF Slice(data, 0, 4) # VAULT_MAGIC
         THEN LoadErr("InvalidFormat", "Invalid magic bytes")
    ELSE IF Slice(data, 4, 8) # to_le_bytes(VAULT_VERSION)
         THEN LoadErr("InvalidFormat", "Unsupported version")
    ELSE LoadDecrypted(
            decrypt([ciphertext |-> Slice(data, HEADER_SIZE + SALT_SIZE + NONCE_SIZE, Len(data)),
                     nonce |-> Slice(data, HEADER_SIZE + SALT_SIZE,
                                     HEADER_SIZE + SALT_SIZE + NONCE_SIZE)],
                    derive_key(password, Slice(data, HEADER_SIZE, HEADER_SIZE + SALT_SIZE))))

(***************************************************************************)
(* The inputs the model draws from.                                        *)
(***************************************************************************)
\* "hunter2", "wrong"
PW_HUNTER2 == <<104, 117, 110, 116, 101, 114, 50>>
PW_WRONG == <<119, 114, 111, 110, 103>>
Passwords == {PW_HUNTER2, PW_WRONG}

\* what the random generator can return: two salts, two nonces
SALT_A == [i \in 1..SALT_SIZE |-> (29 * i + 7) % 256]
SALT_B == [i \in 1..SALT_SIZE |-> (211 * i + 90) % 256]
NONCE_A == [i \in 1..NONCE_SIZE |-> (13 * i + 1) % 256]
NONCE_B == [i \in 1..NONCE_SIZE |-> (57 * i + 200) % 256]
Salts == {SALT_A, SALT_B}
Nonces == {NONCE_A, NONCE_B}

\* one draw of the generator for one call: the salt generate_salt() would return
\* and the nonce generate_nonce() would
Randoms == {[salt |-> SALT_A, nonce |-> NONCE_A], [salt |-> SALT_B, nonce |-> NONCE_B]}

\* "web", "api"
ProjectNames == {<<119, 101, 98>>, <<97, 112, 105>>}
\* "DB_URL"
SecretNames == {<<68, 66, 95, 85, 82, 76>>}
\* "postgres://x"
SECRET_VALUE == <<112, 111, 115, 116, 103, 114, 101, 115, 58, 47, 47, 120>>
SecretValues == {SECRET_VALUE}
\* "deploy", "ssh-ed25519 AAAA vaultx-generated", a 32 byte seed
IDENTITY_NAME == <<100, 101, 112, 108, 111, 121>>
PUBLIC_KEY ==
    <<115, 115, 104, 45, 101, 100, 50, 53, 53, 49, 57, 32, 65, 65, 65, 65, 32,
      118, 97, 117, 108, 116, 120, 45, 103, 101, 110, 101, 114, 97, 116, 101, 100>>
PRIVATE_SEED == [i \in 1..32 |-> (3 * i + 40) % 256]
\* "prod", "root", "10.0.0.1"
SERVER_NAME == <<112, 114, 111, 100>>
USERNAME == <<114, 111, 111, 116>>
IP_ADDRESS == <<49, 48, 46, 48, 46, 48, 46, 49>>
\* the TTL of "1h", and the wall clock of the run
TTL_1H == 3600
NOW == 1000

\* the number of vault operations that build the vault under test
MaxOps == 2

\* the number of storage::save_vault calls of one run
MaxSaves == 3

(***************************************************************************)
(* storage.rs and the file system under it.  A file system maps each path  *)
(* to None (no such file) or Some(content).  An open file is named by the  *)
(* path its inode has now: a rename moves the descriptors open on the      *)
(* source to the target, and leaves those open on the replaced target on   *)
(* an inode without a name.                                                *)
(***************************************************************************)
VAULT_FILE == "vault.vx"
CACHE_FILE == "vaultx_session.cache"
TEMP_FILE == "vault.tmp"
UNLINKED == "(unlinked)"
Paths == {VAULT_FILE, TEMP_FILE, CACHE_FILE}

NoFiles == [path \in Paths |-> None]

\* path.exists()
exists(fs, path) == fs[path] # None

\* temp_path as it would be if the data were written over the target itself
in_place(path) == path

\* path.with_extension("tmp")
temp_path(path) == TEMP_FILE

\* the content after bytes are written at the offset; a gap is filled with zeros
WriteAt(content, off, bytes) ==
    [i \in 1..(IF Len(content) > off + Len(bytes) THEN Len(content) ELSE off + Len(bytes)) |->
        IF i > off /\ i <= off + Len(bytes) THEN bytes[i - off]
        ELSE IF i <= Len(content) THEN content[i] ELSE 0]

\* extract_salt(): [ok, err, salt]
extract_salt(fs) ==
    IF ~exists(fs, VAULT_FILE) THEN [ok |-> FALSE, err |-> "IoError", salt |-> <<>>]
    ELSE IF Len(fs[VAULT_FILE][1]) < HEADER_SIZE + SALT_SIZE
         THEN [ok |-> FALSE, err |-> "CorruptedVault", salt |-> <<>>]
    ELSE [ok |-> TRUE, err |-> "",
          salt |-> Slice(fs[VAULT_FILE][1], HEADER_SIZE, HEADER_SIZE + SALT_SIZE)]

SaltFound(found) == [ok |-> found.ok, err |-> found.err, salt |-> Some(found.salt)]

\* existing_salt as it would be if the file were never consulted
no_existing_salt(fs) == [ok |-> TRUE, err |-> "", salt |-> None]

\* let existing_salt = if path.exists() { Some(extract_salt()?) } else { None }
existing_salt(fs) ==
    IF exists(fs, VAULT_FILE) THEN SaltFound(extract_salt(fs))
    ELSE [ok |-> TRUE, err |-> "", salt |-> None]

DerivedWith(password, found) ==
    [ok |-> found.ok, err |-> found.err,
     key |-> IF found.ok THEN derive_key(password, found.salt) ELSE <<>>]

\* derive_vault_key as it would be if the key were derived with a salt of its own
derive_vault_key_own_salt(fs, password) ==
    [ok |-> TRUE, err |-> "", key |-> derive_key(password, SALT_B)]

\* derive_vault_key(password): [ok, err, key]
derive_vault_key(fs, password) == DerivedWith(password, extract_salt(fs))

\* the rest of load_vault_with_key once the key is derived
LoadedWithKey(key, loaded) ==
    [ok |-> loaded.ok, err |-> loaded.err, vault |-> loaded.vault, key |-> key]

\* load_vault_with_key(password): [ok, err, vault, key]
load_vault_with_key(fs, password) ==
    IF ~exists(fs, VAULT_FILE)
    THEN [ok |-> FALSE, err |-> "VaultNotFound", vault |-> VaultNew, key |-> <<>>]
    ELSE IF Len(fs[VAULT_FILE][1]) < HEADER_SIZE + SALT_SIZE
         THEN [ok |-> FALSE, err |-> "CorruptedVault", vault |-> VaultNew, key |-> <<>>]
    ELSE LoadedWithKey(
            derive_key(password,
                       Slice(fs[VAULT_FILE][1], HEADER_SIZE, HEADER_SIZE + SALT_SIZE)),
            load_vault(fs[VAULT_FILE][1], password))

\* the data storage::save_vault serializes: with the salt of the file when there is
\* one, with a new salt otherwise
SerializeWith(vault, password, salt, r) ==
    IF IsSome(salt)
    THEN save_vault_with_salt(vault, password, salt, r.salt, r.nonce, FALSE)
    ELSE save_vault(vault, password, r.salt, r.nonce, FALSE)

(***************************************************************************)
(* session cache (login.rs, session.rs)                                    *)
(***************************************************************************)
SESSION_ID == 4242

\* std::process::id() of the process
ProcessId(p) == SESSION_ID + p

\* format!("vaultx_session_{}_key", session_id)
SessionSaltInput(session_id) ==
    <<118, 97, 117, 108, 116, 120, 95, 115, 101, 115, 115, 105, 111, 110, 95>>
    \o ToDecimal(session_id) \o <<95, 107, 101, 121>>

\* session.rs derive_session_key: the salt is made of the session id
derive_session_key(session_id) ==
    derive_key(SessionSaltInput(session_id),
               [i \in 1..16 |-> (to_le_bytes(session_id)[((i - 1) % 4) + 1] + (i - 1)) % 256])

\* login.rs derive_session_key: the salt is generate_salt()
login_derive_session_key(pid, generated) == derive_key(SessionSaltInput(pid), generated)

\* the cache file cache_password builds: session_key + nonce + ciphertext
CacheData(session_key, encrypted) == session_key \o encrypted.nonce \o encrypted.ciphertext

cache_password(password, session_key, nonce) ==
    CacheData(session_key, encrypt(password, session_key, nonce))

(***************************************************************************)
(* State.                                                                  *)
(*   vault, ops : the in-memory Vault under test and how many operations   *)
(*                built it                                                 *)
(*   data       : the container bytes handed to load_vault                 *)
(*   sealed     : None, or what produced data: the vault, the password,    *)
(*                and whether the payload is the vault's JSON              *)
(*   edits      : what was done to data after it was produced              *)
(*   outcome    : None, or the password and result of the last load_vault  *)
(*   files      : the file system                                          *)
(*   procs      : the vx processes: where each is in its command, the      *)
(*                vault, password and key it holds, the buffer it saves    *)
(*   saves      : how many storage::save_vault calls have begun            *)
(*   created    : None, or the password and key of create_vault            *)
(*   now        : the wall clock ttl::current_timestamp() reads            *)
(*   called     : None, or the Vault API call of the last step: its name,  *)
(*                its arguments, the vault and clock it ran on, its result *)
(*   ledger     : for each secret added since it was last removed: the     *)
(*                value and key it was added with                          *)
(*   tempdir    : the session cache files of the temp directory, by the    *)
(*                identifier in their name                                 *)
(*   wrote      : for each identifier, the password session::cache_password*)
(*                wrote to its file, while nothing else has touched it     *)
(*   got        : None, or the session::get_cached_password call of the    *)
(*                last step                                                *)
(*   login      : None, or the password the last successful vx login cached*)
(*   ran        : None, or the command the last step ran                   *)
(*   input      : the characters of the duration handed to parse_ttl       *)
(***************************************************************************)
VARIABLES vault, ops, data, sealed, edits, outcome, files, procs, saves, created,
          now, called, ledger, tempdir, wrote, got, login, ran, input

containerVars == <<vault, ops, data, sealed, edits, outcome>>
storageVars == <<files, procs, saves, created>>
apiVars == <<now, called, ledger>>
sessionVars == <<tempdir, wrote, got, login, ran>>
ttlVars == <<input>>
vars == <<vault, ops, data, sealed, edits, outcome, files, procs, saves, created,
          now, called, ledger, tempdir, wrote, got, login, ran, input>>

Procs == {1, 2}

\* a process that has just started, and one that is not run at all
Fresh ==
    [pc |-> "start", vault |-> VaultNew, password |-> <<>>, key |-> None, buf |-> <<>>,
     fd |-> "", off |-> 0, creating |-> FALSE, op |-> "", err |-> ""]
NotRun == [Fresh EXCEPT !.pc = "off"]

\* the key the caller holds: derived from the first password and the first salt
CallerKey == derive_key(PW_HUNTER2, SALT_A)

ContainerIdle ==
    /\ vault = VaultNew
    /\ ops = 0
    /\ data = <<>>
    /\ sealed = None
    /\ edits = {}
    /\ outcome = None

StorageIdle ==
    /\ files = NoFiles
    /\ procs = [p \in Procs |-> NotRun]
    /\ saves = 0
    /\ created = None

\* the identifiers a cache file name can carry: the shell's process id (the parent
\* of every command) and the process ids of the commands
SessionIds == {SESSION_ID} \cup {ProcessId(p) : p \in Procs}

ApiIdle ==
    /\ now = NOW
    /\ called = None
    /\ ledger = EmptyMap

SessionIdle ==
    /\ tempdir = [id \in SessionIds |-> None]
    /\ wrote = [id \in SessionIds |-> None]
    /\ got = None
    /\ login = None
    /\ ran = None

TtlIdle == input = <<>>

InitContainer == ContainerIdle /\ StorageIdle /\ ApiIdle /\ SessionIdle /\ TtlIdle

Building == sealed = None /\ ops < MaxOps

Built(r) ==
    /\ r.ok
    /\ vault' = r.vault
    /\ ops' = ops + 1
    /\ UNCHANGED <<data, sealed, edits, outcome>>
    /\ UNCHANGED <<storageVars, apiVars, sessionVars, ttlVars>>

BuildInitProject(name) ==
    /\ Building
    /\ Built(init_project(vault, name, NOW))

BuildAddSecret(project, key, value, ttl) ==
    /\ Building
    /\ Built(add_secret(vault, project, key, value, CallerKey, ttl, NONCE_B, NOW))

BuildAddIdentity ==
    /\ Building
    /\ Built(add_ssh_identity(vault, IDENTITY_NAME, PUBLIC_KEY, PRIVATE_SEED, CallerKey,
                              NONCE_A, NOW))

BuildAddServer ==
    /\ Building
    /\ Built(add_ssh_server(vault, SERVER_NAME, USERNAME, IP_ADDRESS, IDENTITY_NAME, NOW))

\* data = vault::save_vault(&vault, password)
Save(password, r, rev) ==
    /\ sealed = None
    /\ data' = save_vault(vault, password, r.salt, r.nonce, rev)
    /\ sealed' = Some([vault |-> vault, password |-> password, json |-> TRUE])
    /\ UNCHANGED <<vault, ops, edits, outcome>>
    /\ UNCHANGED <<storageVars, apiVars, sessionVars, ttlVars>>

\* "garbage", "{}", and a document that lacks the required maps
ForgedPayloads ==
    { <<103, 97, 114, 98, 97, 103, 101>>,
      <<LBRACE, RBRACE>>,
      JObject(<<JField(F_version, ToDecimal(VAULT_VERSION))>>) }

\* a container somebody who knows the password made around a payload that is not
\* the JSON of a vault
Forge(password, r, payload) ==
    /\ sealed = None
    /\ ops = 0
    /\ data' = Container(r.salt, encrypt(payload, derive_key(password, r.salt), r.nonce))
    /\ sealed' = Some([vault |-> VaultNew, password |-> password, json |-> FALSE])
    /\ UNCHANGED <<vault, ops, edits, outcome>>
    /\ UNCHANGED <<storageVars, apiVars, sessionVars, ttlVars>>

Editable(kind) == sealed # None /\ outcome = None /\ kind \notin edits

\* the file is cut to its first n bytes
Truncate(n) ==
    /\ Editable("truncated")
    /\ n < Len(data)
    /\ data' = SubSeq(data, 1, n)
    /\ edits' = edits \cup {"truncated"}
    /\ UNCHANGED <<vault, ops, sealed, outcome>>
    /\ UNCHANGED <<storageVars, apiVars, sessionVars, ttlVars>>

\* one byte at the 0-based offset is replaced by another value
SetByte(kind, offset, value) ==
    /\ Editable(kind)
    /\ offset < Len(data)
    /\ data[offset + 1] # value
    /\ data' = [data EXCEPT ![offset + 1] = value]
    /\ edits' = edits \cup {kind}
    /\ UNCHANGED <<vault, ops, sealed, outcome>>
    /\ UNCHANGED <<storageVars, apiVars, sessionVars, ttlVars>>

\* saved[tamper_offset] ^= 0xFF
FlipByte(kind, offset) ==
    /\ offset < Len(data)
    /\ SetByte(kind, offset, 255 - data[offset + 1])

\* outcome = vault::load_vault(&data, password)
Load(password) ==
    /\ sealed # None
    /\ outcome = None
    /\ outcome' = Some([password |-> password, result |-> load_vault(data, password)])
    /\ UNCHANGED <<vault, ops, data, sealed, edits>>
    /\ UNCHANGED <<storageVars, apiVars, sessionVars, ttlVars>>

Build ==
    \/ \E name \in ProjectNames : BuildInitProject(name)
    \/ \E project \in ProjectNames, key \in SecretNames, value \in SecretValues,
          ttl \in {None, Some(TTL_1H)} :
            BuildAddSecret(project, key, value, ttl)
    \/ BuildAddIdentity
    \/ BuildAddServer

\* the offsets probed together with the other edits: the first byte of the salt, of
\* the nonce and of the ciphertext
ProbeOffsets == {HEADER_SIZE, HEADER_SIZE + SALT_SIZE, HEADER_SIZE + SALT_SIZE + NONCE_SIZE}

NextContainer ==
    \/ Build
    \/ \E password \in Passwords, r \in Randoms, rev \in BOOLEAN : Save(password, r, rev)
    \/ \E password \in Passwords, r \in Randoms, payload \in ForgedPayloads :
            Forge(password, r, payload)
    \/ \E n \in {0, 59, 60} : Truncate(n)
    \/ SetByte("magic", 3, 50)
    \/ SetByte("version", 4, 2)
    \/ \E offset \in ProbeOffsets : FlipByte("byte", offset)
    \/ \E password \in Passwords : Load(password)

SpecContainer == InitContainer /\ [][NextContainer]_vars

(***************************************************************************)
(* The container under tampering: a vault of a small sample is saved, one  *)
(* byte of the ciphertext region is changed, and the container is loaded   *)
(* with the password it was saved under.                                   *)
(***************************************************************************)
WebWithSecret ==
    add_secret(init_project(VaultNew, <<119, 101, 98>>, NOW).vault, <<119, 101, 98>>,
               <<68, 66, 95, 85, 82, 76>>, SECRET_VALUE, CallerKey, Some(TTL_1H), NONCE_B,
               NOW).vault

IdentityWithServer ==
    add_ssh_server(
        add_ssh_identity(VaultNew, IDENTITY_NAME, PUBLIC_KEY, PRIVATE_SEED, CallerKey,
                         NONCE_A, NOW).vault,
        SERVER_NAME, USERNAME, IP_ADDRESS, IDENTITY_NAME, NOW).vault

TamperVaults == {VaultNew, WebWithSecret, IdentityWithServer}

InitTamper ==
    /\ vault \in TamperVaults
    /\ ops = MaxOps
    /\ data = <<>>
    /\ sealed = None
    /\ edits = {}
    /\ outcome = None
    /\ StorageIdle
    /\ ApiIdle
    /\ SessionIdle
    /\ TtlIdle

\* the first offset of the ciphertext: header, salt, nonce
CiphertextStart == HEADER_SIZE + SALT_SIZE + NONCE_SIZE

NextTamper ==
    \/ \E r \in Randoms : Save(PW_HUNTER2, r, FALSE)
    \/ \E offset \in CiphertextStart..(Len(data) - 1) : FlipByte("ciphertext", offset)
    \/ \E offset \in CiphertextStart..(Len(data) - 1), delta \in {1, 128} :
            SetByte("ciphertext", offset, (data[offset + 1] + delta) % 256)
    \/ Load(PW_HUNTER2)

SpecTamper == InitTamper /\ [][NextTamper]_vars

(***************************************************************************)
(* Properties of the container.                                            *)
(***************************************************************************)
\* the container was loaded as it was saved, with the password it was saved under
LoadedAsSaved ==
    /\ outcome # None
    /\ sealed[1].json
    /\ edits = {}
    /\ outcome[1].password = sealed[1].password

SameSecrets(v, w, project) ==
    /\ DOMAIN w.projects[project].secrets = DOMAIN v.projects[project].secrets
    /\ \A key \in DOMAIN v.projects[project].secrets :
        /\ w.projects[project].secrets[key].encrypted_value
             = v.projects[project].secrets[key].encrypted_value
        /\ w.projects[project].secrets[key].nonce = v.projects[project].secrets[key].nonce
        /\ w.projects[project].secrets[key].created_at
             = v.projects[project].secrets[key].created_at
        /\ w.projects[project].secrets[key].expires_at
             = v.projects[project].secrets[key].expires_at

SameContent(v, w) ==
    /\ w.version = v.version
    /\ DOMAIN w.projects = DOMAIN v.projects
    /\ \A project \in DOMAIN v.projects : SameSecrets(v, w, project)
    /\ DOMAIN w.ssh_identities = DOMAIN v.ssh_identities
    /\ DOMAIN w.ssh_servers = DOMAIN v.ssh_servers

\* C3: load_vault(save_vault(v, pw), pw) succeeds and yields a vault with the version,
\* the project, secret, identity and server sets of v, and with every secret's
\* ciphertext, nonce, created_at and expires_at equal to those in v
ContainerRoundTrip ==
    LoadedAsSaved =>
        /\ outcome[1].result.ok
        /\ SameContent(sealed[1].vault, outcome[1].result.vault)

\* a vault with a secret that expires came back from its container
RoundTripWitness ==
    /\ LoadedAsSaved
    /\ outcome[1].result.ok
    /\ \E project \in DOMAIN sealed[1].vault.projects :
        \E key \in DOMAIN sealed[1].vault.projects[project].secrets :
            /\ sealed[1].vault.projects[project].secrets[key].expires_at # None
            /\ outcome[1].result.vault.projects[project].secrets[key].expires_at # None

\* the saved container was loaded with another password than it was saved under
LoadedWithOtherPassword ==
    /\ outcome # None
    /\ sealed[1].json
    /\ edits = {}
    /\ outcome[1].password # sealed[1].password

\* C4: for pw1 # pw2, load_vault(save_vault(v, pw1), pw2) fails with
\* AuthenticationFailed and returns no vault
WrongPasswordFails ==
    LoadedWithOtherPassword =>
        /\ ~outcome[1].result.ok
        /\ outcome[1].result.err = "AuthenticationFailed"

WrongPasswordWitness ==
    /\ LoadedWithOtherPassword
    /\ DOMAIN sealed[1].vault.projects # {}
    /\ outcome[1].result.err = "AuthenticationFailed"

\* C5: a saved container with one byte changed at an offset of 60 or more fails to
\* load under the right password, with AuthenticationFailed
TamperDetected ==
    (/\ outcome # None
     /\ sealed[1].json
     /\ "ciphertext" \in edits
     /\ outcome[1].password = sealed[1].password)
        => (~outcome[1].result.ok /\ outcome[1].result.err = "AuthenticationFailed")

\* a byte of the container of a vault with a secret was changed, and the load failed
TamperWitness ==
    /\ outcome # None
    /\ "ciphertext" \in edits
    /\ sealed[1].vault = WebWithSecret
    /\ outcome[1].password = sealed[1].password
    /\ outcome[1].result.err = "AuthenticationFailed"

\* C6: load_vault has one failure mode: whatever was done to the file and whichever
\* password is supplied, a failed load returns the error a wrong password returns
OneFailureMode ==
    (outcome # None /\ ~outcome[1].result.ok) => outcome[1].result.err = "AuthenticationFailed"

\* what the order of C7 yields for the container at hand; the decryption fails when
\* the password is not the one the container was sealed under or when salt, nonce or
\* ciphertext were changed or cut
DecryptionMustFail ==
    \/ outcome[1].password # sealed[1].password
    \/ edits \cap {"byte", "truncated"} # {}

ExpectedOutcome ==
    IF Len(data) < 60 THEN <<"CorruptedVault", "">>
    ELSE IF SubSeq(data, 1, 4) # <<86, 88, 48, 49>>
         THEN <<"InvalidFormat", "Invalid magic bytes">>
    ELSE IF SubSeq(data, 5, 8) # <<1, 0, 0, 0>>
         THEN <<"InvalidFormat", "Unsupported version">>
    ELSE IF DecryptionMustFail THEN <<"AuthenticationFailed", "">>
    ELSE IF ~sealed[1].json THEN <<"SerializationError", "">>
    ELSE <<"", "">>

\* C7: load_vault rejects in a fixed order: shorter than 60 bytes CorruptedVault, else
\* a wrong magic InvalidFormat("Invalid magic bytes"), else a wrong version
\* InvalidFormat (unsupported version), else a failed decryption AuthenticationFailed,
\* else a payload that is not the JSON of a vault SerializationError
RejectionOrder ==
    outcome # None =>
        /\ <<outcome[1].result.err, outcome[1].result.msg>> = ExpectedOutcome
        /\ outcome[1].result.ok <=> ExpectedOutcome = <<"", "">>

\* magic, version and salt were all changed, and the magic decided
RejectionOrderWitness ==
    /\ outcome # None
    /\ {"magic", "version", "byte"} \subseteq edits
    /\ Len(data) >= 60
    /\ outcome[1].password # sealed[1].password
    /\ outcome[1].result.msg = "Invalid magic bytes"

(***************************************************************************)
(* The vx processes on the file system.  A process is one run of a command:*)
(* it creates the vault or loads it, changes it in memory, and saves it;   *)
(* storage::save_vault is taken one system call at a time.                 *)
(*   pc: "off" not run, "start", "ready" (vault, password and key held),   *)
(*       "begun" (data serialized), "created" (temp file open),            *)
(*       "written", "synced", "failed" (the command returned err)          *)
(***************************************************************************)
Saving == {"begun", "created", "written", "synced"}

Failed(proc, op, err) == [proc EXCEPT !.pc = "failed", !.op = op, !.err = err]

\* storage::save_vault up to the serialized data; found is existing_salt
Begun(proc, found, r) ==
    IF ~found.ok THEN Failed(proc, "save", found.err)
    ELSE [proc EXCEPT !.pc = "begun", !.op = "save", !.fd = "", !.off = 0,
                      !.buf = SerializeWith(proc.vault, proc.password, found.salt, r)]

\* create_vault(password), called when no vault file exists: Vault::new() is saved
CreateBegin(p, password, r) ==
    /\ procs[p].pc = "start"
    /\ ~exists(files, VAULT_FILE)
    /\ saves < MaxSaves
    /\ saves' = saves + 1
    /\ procs' = [procs EXCEPT ![p] =
                    Begun([Fresh EXCEPT !.password = password, !.creating = TRUE],
                          existing_salt(files), r)]
    /\ UNCHANGED <<files, created>>
    /\ UNCHANGED <<containerVars, apiVars, sessionVars, ttlVars>>

\* storage::save_vault(&vault, &password) of the vault in memory
SaveBegin(p, r) ==
    /\ procs[p].pc = "ready"
    /\ saves < MaxSaves
    /\ saves' = saves + 1
    /\ procs' = [procs EXCEPT ![p] = Begun(procs[p], existing_salt(files), r)]
    /\ UNCHANGED <<files, created>>
    /\ UNCHANGED <<containerVars, apiVars, sessionVars, ttlVars>>

\* File::create(&temp_path): the file is created, or emptied when it exists
CreateTemp(p) ==
    /\ procs[p].pc = "begun"
    /\ files' = [files EXCEPT ![temp_path(VAULT_FILE)] = Some(<<>>)]
    /\ procs' = [procs EXCEPT ![p] =
                    [@ EXCEPT !.pc = "created", !.fd = temp_path(VAULT_FILE), !.off = 0]]
    /\ UNCHANGED <<saves, created>>
    /\ UNCHANGED <<containerVars, apiVars, sessionVars, ttlVars>>

\* the offsets one write of write_all can reach: the end, or half the data first
WriteEnds(proc) ==
    {Len(proc.buf)} \cup (IF proc.off = 0 THEN {Len(proc.buf) \div 2} ELSE {})

Written(p, upto) ==
    /\ files' = IF procs[p].fd = UNLINKED THEN files
                ELSE [files EXCEPT ![procs[p].fd] =
                        Some(WriteAt(@[1], procs[p].off,
                                     SubSeq(procs[p].buf, procs[p].off + 1, upto)))]
    /\ procs' = [procs EXCEPT ![p] =
                    [@ EXCEPT !.off = upto,
                              !.pc = IF upto = Len(procs[p].buf) THEN "written" ELSE "created"]]

\* file.write_all(&data), one write at a time
WriteAll(p) ==
    /\ procs[p].pc = "created"
    /\ \E upto \in WriteEnds(procs[p]) : Written(p, upto)
    /\ UNCHANGED <<saves, created>>
    /\ UNCHANGED <<containerVars, apiVars, sessionVars, ttlVars>>

\* file.sync_all(), and the file is closed
SyncAll(p) ==
    /\ procs[p].pc = "written"
    /\ procs' = [procs EXCEPT ![p] = [@ EXCEPT !.pc = "synced", !.fd = ""]]
    /\ UNCHANGED <<files, saves, created>>
    /\ UNCHANGED <<containerVars, apiVars, sessionVars, ttlVars>>

\* fs::rename(src, dst) on the directory, and on the descriptors of another process
Renamed(fs, src, dst) ==
    IF src = dst THEN fs ELSE [fs EXCEPT ![dst] = fs[src], ![src] = None]

Retarget(proc, src, dst) ==
    IF src = dst THEN proc
    ELSE IF proc.fd = src THEN [proc EXCEPT !.fd = dst]
    ELSE IF proc.fd = dst THEN [proc EXCEPT !.fd = UNLINKED]
    ELSE proc

\* the end of save_vault, and of create_vault when it is the caller: derived is
\* derive_vault_key(password) on the file system after the rename
Saved(proc, derived) ==
    IF ~proc.creating THEN [proc EXCEPT !.pc = "ready"]
    ELSE IF ~derived.ok THEN Failed(proc, "create", derived.err)
    ELSE [proc EXCEPT !.pc = "ready", !.creating = FALSE, !.key = Some(derived.key)]

Created(proc, after) ==
    IF proc.creating /\ after.pc = "ready"
    THEN Some([password |-> proc.password, key |-> after.key[1]])
    ELSE created

RenameDone(p, fs, after) ==
    /\ files' = fs
    /\ procs' = [q \in Procs |->
                    IF q = p THEN after
                    ELSE Retarget(procs[q], temp_path(VAULT_FILE), VAULT_FILE)]
    /\ created' = Created(procs[p], after)

\* fs::rename(&temp_path, &path)
Rename(p) ==
    /\ procs[p].pc = "synced"
    /\ IF ~exists(files, temp_path(VAULT_FILE))
       THEN /\ procs' = [procs EXCEPT ![p] = Failed(@, "save", "IoError")]
            /\ UNCHANGED <<files, created>>
       ELSE RenameDone(p, Renamed(files, temp_path(VAULT_FILE), VAULT_FILE),
                       Saved(procs[p],
                             derive_vault_key(Renamed(files, temp_path(VAULT_FILE), VAULT_FILE),
                                              procs[p].password)))
    /\ UNCHANGED saves
    /\ UNCHANGED <<containerVars, apiVars, sessionVars, ttlVars>>

Unlocked(password, loaded) ==
    IF ~loaded.ok THEN Failed([Fresh EXCEPT !.password = password], "load", loaded.err)
    ELSE [Fresh EXCEPT !.pc = "ready", !.op = "load", !.password = password,
                       !.vault = loaded.vault, !.key = Some(loaded.key)]

\* a command loads the vault: load_vault_with_key(password)
Unlock(p, password) ==
    /\ procs[p].pc = "start"
    /\ procs' = [procs EXCEPT ![p] = Unlocked(password, load_vault_with_key(files, password))]
    /\ UNCHANGED <<files, saves, created>>
    /\ UNCHANGED <<containerVars, apiVars, sessionVars, ttlVars>>

Changed(p, r) ==
    /\ r.ok
    /\ procs' = [procs EXCEPT ![p] = [@ EXCEPT !.vault = r.vault]]
    /\ UNCHANGED <<files, saves, created>>
    /\ UNCHANGED <<containerVars, apiVars, sessionVars, ttlVars>>

\* vx init <project>: vault.init_project(project)
InitProject(p, name) ==
    /\ procs[p].pc = "ready"
    /\ Changed(p, init_project(procs[p].vault, name, NOW))

\* vx add: vault.add_secret(project, key, value, &encryption_key, ttl)
AddSecret(p, project, key, value) ==
    /\ procs[p].pc = "ready"
    /\ Changed(p, add_secret(procs[p].vault, project, key, value, procs[p].key[1], None,
                             NONCE_B, NOW))

\* vx login, once the password has loaded the vault: cache_password(password)
Login(p, r) ==
    /\ procs[p].pc = "ready"
    /\ procs[p].op = "load"
    /\ files' = [files EXCEPT ![CACHE_FILE] =
                    Some(cache_password(procs[p].password,
                                        login_derive_session_key(ProcessId(p), r.salt),
                                        r.nonce))]
    /\ procs' = [procs EXCEPT ![p] = Fresh]
    /\ UNCHANGED <<saves, created>>
    /\ UNCHANGED <<containerVars, apiVars, sessionVars, ttlVars>>

\* the process ends or is stopped, wherever it is
Stop(p) ==
    /\ procs[p].pc \notin {"off", "start"}
    /\ procs' = [procs EXCEPT ![p] = Fresh]
    /\ UNCHANGED <<files, saves, created>>
    /\ UNCHANGED <<containerVars, apiVars, sessionVars, ttlVars>>

\* the project the processes work on: "web"
StoredProjects == {<<119, 101, 98>>}

\* one process, no vault file yet
Init ==
    /\ ContainerIdle
    /\ ApiIdle
    /\ SessionIdle
    /\ TtlIdle
    /\ files = NoFiles
    /\ procs = [p \in Procs |-> IF p = 1 THEN Fresh ELSE NotRun]
    /\ saves = 0
    /\ created = None

Next ==
    \E p \in Procs :
        \/ \E password \in Passwords, r \in Randoms : CreateBegin(p, password, r)
        \/ \E password \in Passwords : Unlock(p, password)
        \/ \E name \in StoredProjects : InitProject(p, name)
        \/ \E project \in StoredProjects, key \in SecretNames, value \in SecretValues :
                AddSecret(p, project, key, value)
        \/ \E r \in Randoms : SaveBegin(p, r)
        \/ CreateTemp(p)
        \/ WriteAll(p)
        \/ SyncAll(p)
        \/ Rename(p)
        \/ \E r \in Randoms : Login(p, r)
        \/ Stop(p)

Spec == Init /\ [][Next]_vars

(***************************************************************************)
(* Properties of the storage, one process.                                 *)
(***************************************************************************)
\* C1: once the vault file exists every save reuses the salt read from it, so bytes
\* 16..48 of the file are the same before and after each step of a save; the data a
\* save serializes carries a salt of its own only when there is no file
SaltStability ==
    [][/\ (exists(files, VAULT_FILE) /\ exists(files', VAULT_FILE))
            => SubSeq(files'[VAULT_FILE][1], 17, 48) = SubSeq(files[VAULT_FILE][1], 17, 48)
       /\ \A p \in Procs :
            (procs[p].pc # "begun" /\ procs'[p].pc = "begun" /\ exists(files, VAULT_FILE))
                => SubSeq(procs'[p].buf, 17, 48) = SubSeq(files[VAULT_FILE][1], 17, 48)]_vars

\* the file carries the salt of the first draw and the nonce of the second: a save
\* after the creation drew another salt and did not use it
SaltStabilityWitness ==
    /\ exists(files, VAULT_FILE)
    /\ SubSeq(files[VAULT_FILE][1], 17, 48) = SALT_A
    /\ SubSeq(files[VAULT_FILE][1], 49, 60) = NONCE_B

SecretsOpen(v, key) ==
    \A project \in DOMAIN v.projects :
        \A name \in DOMAIN v.projects[project].secrets :
            decrypt([ciphertext |-> v.projects[project].secrets[name].encrypted_value,
                     nonce |-> v.projects[project].secrets[name].nonce], key)
                = [ok |-> TRUE, err |-> "", value |-> SECRET_VALUE]

\* C2: a load with the password of create_vault succeeds and returns the key
\* create_vault returned, whatever was saved in between, and the secrets of the
\* loaded vault decrypt under it
KeyStability ==
    \A p \in Procs :
        (created # None /\ procs[p].password = created[1].password) =>
            /\ ~(procs[p].pc = "failed" /\ procs[p].op = "load")
            /\ procs[p].key # None =>
                /\ procs[p].key[1] = created[1].key
                /\ SecretsOpen(procs[p].vault, procs[p].key[1])

\* a later process loaded, with the creating password, a vault that holds a secret
KeyStabilityWitness ==
    \E p \in Procs :
        /\ created # None
        /\ procs[p].pc = "ready"
        /\ procs[p].op = "load"
        /\ procs[p].password = created[1].password
        /\ procs[p].key = Some(created[1].key)
        /\ saves >= 2
        /\ \E project \in DOMAIN procs[p].vault.projects :
                DOMAIN procs[p].vault.projects[project].secrets # {}

\* the data loads, under the password, as the vault
Complete(bytes, password, v) ==
    load_vault(bytes, password) = [ok |-> TRUE, err |-> "", msg |-> "", vault |-> v]

\* C8: the vault file changes only by the rename of a process whose data is written
\* to the temp file in full and synced, and then it holds that data, a complete
\* container; every other step, and a process stopping anywhere, leaves it as it was
AtomicSave ==
    [][files'[VAULT_FILE] # files[VAULT_FILE] =>
        \E p \in Procs :
            /\ procs[p].pc = "synced"
            /\ files[TEMP_FILE] = Some(procs[p].buf)
            /\ files'[VAULT_FILE] = Some(procs[p].buf)
            /\ Complete(procs[p].buf, procs[p].password, procs[p].vault)]_vars

\* a save is half way through its write while the vault file holds the old container
AtomicSaveWitness ==
    \E p \in Procs :
        /\ procs[p].pc = "created"
        /\ procs[p].off > 0
        /\ procs[p].off < Len(procs[p].buf)
        /\ exists(files, VAULT_FILE)
        /\ files[VAULT_FILE] # Some(procs[p].buf)
        /\ files[TEMP_FILE] = Some(SubSeq(procs[p].buf, 1, procs[p].off))

\* the keys the program derives: of the vault, and of the session cache
VaultKeys == {derive_key(password, salt) : password \in Passwords, salt \in Salts}
SessionKeys == {login_derive_session_key(ProcessId(p), salt) : p \in Procs, salt \in Salts}

\* the file holds none of the byte strings
Clear(fs, path, strings) ==
    exists(fs, path) => \A str \in strings : ~Contains(fs[path][1], str)

VaultFileHygiene == Clear(files, VAULT_FILE, VaultKeys \cup Passwords \cup SecretValues)

CachePasswordHygiene == Clear(files, CACHE_FILE, VaultKeys \cup Passwords \cup SecretValues)

\* C10: neither the vault file nor the session cache file holds in the clear a
\* derived key, the master passphrase or a plaintext secret value
KeyMaterialHygiene ==
    /\ Clear(files, VAULT_FILE, VaultKeys \cup SessionKeys \cup Passwords \cup SecretValues)
    /\ Clear(files, CACHE_FILE, VaultKeys \cup SessionKeys \cup Passwords \cup SecretValues)

(***************************************************************************)
(* Two processes on one vault file.  The file was created under the first  *)
(* password; each process loads it, changes its copy and saves it, and the *)
(* steps of the two saves interleave freely.                               *)
(***************************************************************************)
CreatedContainer == save_vault(VaultNew, PW_HUNTER2, SALT_A, NONCE_A, FALSE)

InitConcurrent ==
    /\ ContainerIdle
    /\ ApiIdle
    /\ SessionIdle
    /\ TtlIdle
    /\ files = [NoFiles EXCEPT ![VAULT_FILE] = Some(CreatedContainer)]
    /\ procs = [p \in Procs |-> Fresh]
    /\ saves = 1
    /\ created = Some([password |-> PW_HUNTER2, key |-> derive_key(PW_HUNTER2, SALT_A)])

NextConcurrent ==
    \E p \in Procs :
        \/ Unlock(p, PW_HUNTER2)
        \/ \E name \in StoredProjects : InitProject(p, name)
        \/ \E project \in StoredProjects, key \in SecretNames, value \in SecretValues :
                AddSecret(p, project, key, value)
        \/ \E r \in Randoms : SaveBegin(p, r)
        \/ CreateTemp(p)
        \/ WriteAll(p)
        \/ SyncAll(p)
        \/ Rename(p)

SpecConcurrent == InitConcurrent /\ [][NextConcurrent]_vars

\* no save returned an error
NoSaveError == \A p \in Procs : ~(procs[p].pc = "failed" /\ procs[p].op = "save")

\* while no save is under way the vault file is the container it was created with or
\* the data of the last save of one of the processes
OneWholeContainer ==
    (\A p \in Procs : procs[p].pc \notin Saving) =>
        /\ exists(files, VAULT_FILE)
        /\ files[VAULT_FILE][1] \in {CreatedContainer} \cup {procs[p].buf : p \in Procs}

\* at every instant the vault file exists and is not shorter than a container's
\* header, salt and nonce
NeverPartial ==
    exists(files, VAULT_FILE) /\ Len(files[VAULT_FILE][1]) >= HEADER_SIZE + SALT_SIZE + NONCE_SIZE

\* C9: two processes saving to the same path race only at the rename: the vault
\* file is then the complete container of one of them, never a mixture or a part of
\* one, and the save of the loser ends without an error
ConcurrentSaves == NoSaveError /\ OneWholeContainer /\ NeverPartial

(***************************************************************************)
(* The session cache of one shell: session.rs, the login command           *)
(* (commands/login.rs) and the commands that look for a cached password.   *)
(* The shell has the process id SESSION_ID; every command is a child of    *)
(* it with a process id of its own.  The vault file holds the container    *)
(* create_vault wrote under "hunter2".                                     *)
(***************************************************************************)
\* get_session_id() in the process pid: the parent process id when /proc/self/stat
\* gives it, the process id otherwise
get_session_id(pid) == {SESSION_ID, pid}

\* the salt generate_salt() returns to a process that reads: a value no writer drew
SALT_C == [i \in 1..SALT_SIZE |-> (101 * i + 33) % 256]

\* session.rs cache_password(password) under the identifier sid
session_cache_password(dir, sid, password, nonce) ==
    [dir EXCEPT ![sid] = Some(cache_password(password, derive_session_key(sid), nonce))]

\* get_cached_password as it would be if a file it cannot use were left in place
keep_stale(dir, sid) == dir

\* let _ = fs::remove_file(&cache_path)
remove_stale(dir, sid) == [dir EXCEPT ![sid] = None]

\* the end of get_cached_password: the password, or the file is removed
Decrypted(dir, sid, opened) ==
    IF opened.ok THEN [ok |-> TRUE, password |-> Some(opened.value), dir |-> dir]
    ELSE [ok |-> TRUE, password |-> None, dir |-> remove_stale(dir, sid)]

\* CacheContent as it would be if the file were read from its first byte, the 32
\* bytes in front of the nonce not skipped
CacheContentFromStart(bytes) ==
    [ciphertext |-> Slice(bytes, 12, Len(bytes)), nonce |-> Slice(bytes, 0, 12)]

\* the nonce and ciphertext get_cached_password takes from the file
CacheContent(bytes) ==
    [ciphertext |-> Slice(bytes, KEY_SIZE + 12, Len(bytes)),
     nonce |-> Slice(bytes, KEY_SIZE, KEY_SIZE + 12)]

\* get_cached_password() on the file of sid, with the session key it derives:
\* [ok, password, dir]; ok is Ok(..), password the Option it carries
get_cached_password(dir, sid, session_key) ==
    IF dir[sid] = None THEN [ok |-> TRUE, password |-> None, dir |-> dir]
    ELSE IF Len(dir[sid][1]) < KEY_SIZE + 12
         THEN [ok |-> TRUE, password |-> None, dir |-> remove_stale(dir, sid)]
    ELSE Decrypted(dir, sid, decrypt(CacheContent(dir[sid][1]), session_key))

\* clear_cached_password()
clear_cached_password(dir, sid) == [dir EXCEPT ![sid] = None]

\* what is known of the files once the directory has changed: a file that has gone
\* holds no password
StillWritten(dir) == [id \in SessionIds |-> IF dir[id] = None THEN None ELSE wrote[id]]

\* session::cache_password(password) in some process of the shell
CachePassword(sid, password, nonce) ==
    /\ tempdir' = session_cache_password(tempdir, sid, password, nonce)
    /\ wrote' = [wrote EXCEPT ![sid] = Some(password)]
    /\ got' = None
    /\ ran' = None
    /\ UNCHANGED login
    /\ UNCHANGED <<containerVars, storageVars, apiVars, ttlVars>>

Got(sid, r) ==
    /\ got' = Some([sid |-> sid, before |-> tempdir[sid], wrote |-> wrote[sid],
                    ok |-> r.ok, result |-> r.password, after |-> r.dir[sid]])
    /\ tempdir' = r.dir
    /\ wrote' = StillWritten(r.dir)

\* session::get_cached_password() in some process of the shell
GetCachedPassword(sid) ==
    /\ Got(sid, get_cached_password(tempdir, sid, derive_session_key(sid)))
    /\ ran' = None
    /\ UNCHANGED login
    /\ UNCHANGED <<containerVars, storageVars, apiVars, ttlVars>>

\* session::clear_cached_password() or login::clear_cached_password()
ClearCachedPassword(sid) ==
    /\ tempdir[sid] # None
    /\ tempdir' = clear_cached_password(tempdir, sid)
    /\ wrote' = StillWritten(clear_cached_password(tempdir, sid))
    /\ login' = None
    /\ got' = None
    /\ ran' = None
    /\ UNCHANGED <<containerVars, storageVars, apiVars, ttlVars>>

\* the cache file is damaged from outside: cut below the 44 bytes of key and nonce,
\* or one byte of its ciphertext is changed
Damaged(bytes, kind) ==
    IF kind = "short" THEN SubSeq(bytes, 1, KEY_SIZE + 12 - 1)
    ELSE [bytes EXCEPT ![KEY_SIZE + 12 + 1] = 255 - @]

Damage(sid, kind) ==
    /\ wrote[sid] # None
    /\ tempdir' = [tempdir EXCEPT ![sid] = Some(Damaged(@[1], kind))]
    /\ wrote' = [wrote EXCEPT ![sid] = None]
    /\ login' = None
    /\ got' = None
    /\ ran' = None
    /\ UNCHANGED <<containerVars, storageVars, apiVars, ttlVars>>

\* storage::load_vault(password) succeeds: it fails where load_vault_with_key does
Accepts(fs, password) == load_vault_with_key(fs, password).ok

\* cache_password(password) of login.rs in the process p
LoginCached(p, password, r) ==
    /\ tempdir' = [tempdir EXCEPT ![ProcessId(p)] =
                    Some(cache_password(password,
                                        login_derive_session_key(ProcessId(p), r.salt),
                                        r.nonce))]
    /\ wrote' = [wrote EXCEPT ![ProcessId(p)] = None]
    /\ login' = Some([password |-> password, pid |-> ProcessId(p)])
    /\ got' = None
    /\ ran' = None
    /\ UNCHANGED <<containerVars, storageVars, apiVars, ttlVars>>

\* vx login: the password is read, verified by storage::load_vault, and cached by
\* login.rs cache_password in the file named by the process id
LoginCommand(password, draws) ==
    /\ exists(files, VAULT_FILE)
    /\ Accepts(files, password)
    /\ \E p \in Procs, r \in draws : LoginCached(p, password, r)

\* how a command comes by the password: found is what get_cached_password returned
\* for the file of sid; a cached password the vault refuses is cleared, and the
\* password is asked for when none was found or the one found was refused
WithCache(fs, sid, found) ==
    IF found.password = None THEN [prompted |-> TRUE, cleared |-> FALSE, dir |-> found.dir]
    ELSE IF Accepts(fs, found.password[1])
         THEN [prompted |-> FALSE, cleared |-> FALSE, dir |-> found.dir]
    ELSE [prompted |-> TRUE, cleared |-> TRUE, dir |-> clear_cached_password(found.dir, sid)]

Ran(p, kind, unlocked) ==
    /\ ran' = Some([command |-> kind, pid |-> ProcessId(p), login |-> login,
                    prompted |-> unlocked.prompted])
    /\ tempdir' = unlocked.dir
    /\ wrote' = StillWritten(unlocked.dir)
    /\ login' = IF unlocked.cleared THEN None ELSE login
    /\ got' = None
    /\ UNCHANGED <<containerVars, storageVars, apiVars, ttlVars>>

\* vx init, add, edit, remove, ssh init: session::get_cached_password(), then
\* load_vault_with_key(&cached), else read_password
SessionCommand(p, sid) ==
    /\ exists(files, VAULT_FILE)
    /\ sid \in get_session_id(ProcessId(p))
    /\ Ran(p, "session",
           WithCache(files, sid, get_cached_password(tempdir, sid, derive_session_key(sid))))

\* vx list, get, scp, ssh connect: storage::load_vault_with_key_auto(), which asks
\* login::get_cached_password()
AutoCommand(p) ==
    /\ exists(files, VAULT_FILE)
    /\ Ran(p, "auto",
           WithCache(files, ProcessId(p),
                     get_cached_password(tempdir, ProcessId(p),
                                         login_derive_session_key(ProcessId(p), SALT_C))))

InitSession ==
    /\ ContainerIdle
    /\ ApiIdle
    /\ files = [NoFiles EXCEPT ![VAULT_FILE] = Some(CreatedContainer)]
    /\ procs = [p \in Procs |-> NotRun]
    /\ saves = 1
    /\ created = Some([password |-> PW_HUNTER2, key |-> derive_key(PW_HUNTER2, SALT_A)])
    /\ SessionIdle
    /\ TtlIdle

\* the session.rs functions called in any order, under any identifier, on files that
\* vx login may have written and that may be damaged
NextSession ==
    \/ \E sid \in SessionIds, password \in Passwords : CachePassword(sid, password, NONCE_A)
    \/ \E sid \in SessionIds : GetCachedPassword(sid)
    \/ \E sid \in SessionIds : ClearCachedPassword(sid)
    \/ \E sid \in SessionIds, kind \in {"short", "changed"} : Damage(sid, kind)
    \/ \E password \in Passwords :
            LoginCommand(password, {[salt |-> SALT_A, nonce |-> NONCE_A]})

SpecSession == InitSession /\ [][NextSession]_vars

\* vx login and the commands run after it from the same shell
NextLogin ==
    \/ \E password \in Passwords : LoginCommand(password, [salt : Salts, nonce : Nonces])
    \/ \E p \in Procs, sid \in SessionIds : SessionCommand(p, sid)
    \/ \E p \in Procs : AutoCommand(p)
    \/ \E sid \in SessionIds : ClearCachedPassword(sid)

SpecLogin == InitSession /\ [][NextLogin]_vars

\* C11: within one session identifier, session::get_cached_password called after
\* session::cache_password(pw) returns exactly pw, at every call made while the file
\* has been neither cleared nor overwritten.
SessionCacheRoundTrip ==
    (got # None /\ got[1].wrote # None) =>
        /\ got[1].ok
        /\ got[1].result = got[1].wrote
        /\ got[1].after = got[1].before

SessionCacheRoundTripWitness ==
    /\ got # None
    /\ got[1].wrote = Some(PW_HUNTER2)
    /\ got[1].result = Some(PW_HUNTER2)

\* C12: after vx login has succeeded, every later command of the same shell gets the
\* master password from the session cache and does not ask for it, until the cache
\* is cleared.
LoginCaching ==
    (ran # None /\ ran[1].login # None) => ~ran[1].prompted

\* C13: get_cached_password on a cache file shorter than 44 bytes, or whose
\* ciphertext does not decrypt, removes the file and returns Ok(None); a call that
\* finds no file returns Ok(None) and leaves no file.
StaleCache(call) ==
    /\ call.before # None
    /\ \/ Len(call.before[1]) < KEY_SIZE + 12
       \/ ~decrypt(CacheContent(call.before[1]), derive_session_key(call.sid)).ok

StaleCacheNotSticky ==
    got # None =>
        /\ StaleCache(got[1]) => got[1].ok /\ got[1].result = None /\ got[1].after = None
        /\ got[1].before = None => got[1].ok /\ got[1].result = None /\ got[1].after = None

StaleCacheWitness ==
    /\ got # None
    /\ StaleCache(got[1])
    /\ Len(got[1].before[1]) >= KEY_SIZE + 12
    /\ got[1].after = None
    /\ tempdir[got[1].sid] = None

(***************************************************************************)
(* The Vault API (vault.rs) called in any order on one vault in memory,    *)
(* while the wall clock moves.                                             *)
(***************************************************************************)
\* the result of a call that returns a value: [ok, err, value]
Value(v) == [ok |-> TRUE, err |-> "", value |-> v]
Error(e) == [ok |-> FALSE, err |-> e, value |-> <<>>]

\* crypto::decrypt(&encrypted, encryption_key).map_err(VaultError::CryptoError)
Decrypt(opened) ==
    IF opened.ok THEN Value(opened.value) ELSE Error("CryptoError(DecryptionFailed)")

\* get_secret as it would be if the value were decrypted before the expiry is looked at
get_secret_decrypt_first(v, project, key, encryption_key, clock) ==
    IF project \notin DOMAIN v.projects THEN Error("ProjectNotFound")
    ELSE IF key \notin DOMAIN v.projects[project].secrets THEN Error("SecretNotFound")
    ELSE IF ~decrypt([ciphertext |-> v.projects[project].secrets[key].encrypted_value,
                      nonce |-> v.projects[project].secrets[key].nonce], encryption_key).ok
         THEN Error("CryptoError(DecryptionFailed)")
    ELSE IF is_expired(v.projects[project].secrets[key].expires_at, clock)
         THEN Error("SecretExpired")
    ELSE Decrypt(decrypt([ciphertext |-> v.projects[project].secrets[key].encrypted_value,
                          nonce |-> v.projects[project].secrets[key].nonce], encryption_key))

\* Vault::get_secret; clock is ttl::current_timestamp()
get_secret(v, project, key, encryption_key, clock) ==
    IF project \notin DOMAIN v.projects THEN Error("ProjectNotFound")
    ELSE IF key \notin DOMAIN v.projects[project].secrets THEN Error("SecretNotFound")
    ELSE IF is_expired(v.projects[project].secrets[key].expires_at, clock)
         THEN Error("SecretExpired")
    ELSE Decrypt(decrypt([ciphertext |-> v.projects[project].secrets[key].encrypted_value,
                          nonce |-> v.projects[project].secrets[key].nonce], encryption_key))

\* HashMap::remove
MapRemove(m, k) == [n \in (DOMAIN m) \ {k} |-> m[n]]

\* remove_project as it would be if it dropped the secrets and kept the project
remove_project_emptying(v, name) ==
    IF name \in DOMAIN v.projects
    THEN Ok([v EXCEPT !.projects[name].secrets = EmptyMap])
    ELSE Err("ProjectNotFound", v)

\* Vault::remove_project
remove_project(v, name) ==
    IF name \in DOMAIN v.projects
    THEN Ok([v EXCEPT !.projects = MapRemove(@, name)])
    ELSE Err("ProjectNotFound", v)

\* Vault::remove_secret
remove_secret(v, project, key) ==
    IF project \notin DOMAIN v.projects THEN Err("ProjectNotFound", v)
    ELSE IF key \in DOMAIN v.projects[project].secrets
         THEN Ok([v EXCEPT !.projects[project].secrets = MapRemove(@, key)])
    ELSE Err("SecretNotFound", v)

\* the inputs of the calls: a second secret value ("s3cret"), a second key, a second
\* identity ("backup") and user ("admin"), a TTL whose sum with the clock overflows
SECRET_VALUE_2 == <<115, 51, 99, 114, 101, 116>>
ApiValues == {SECRET_VALUE, SECRET_VALUE_2}
OtherKey == derive_key(PW_WRONG, SALT_B)
ApiKeys == {CallerKey, OtherKey}
IDENTITY_NAME_2 == <<98, 97, 99, 107, 117, 112>>
IdentityNames == {IDENTITY_NAME, IDENTITY_NAME_2}
USERNAME_2 == <<97, 100, 109, 105, 110>>
Usernames == {USERNAME, USERNAME_2}
Ttls == {None, Some(TTL_1H), Some(U64_MAX)}

\* the value and TTL of the secrets added: both values without a TTL, one of them
\* with each TTL
SecretInputs ==
    {[value |-> value, ttl |-> None] : value \in ApiValues}
    \cup {[value |-> SECRET_VALUE, ttl |-> ttl] : ttl \in Ttls}

\* the values the wall clock takes: the start, the last second before start + 1h
\* and start + 1h itself
Clock == {NOW, NOW + TTL_1H - 1, NOW + TTL_1H}

\* the number of calls that change the vault
MaxCalls == 2

\* the vaults the calls start from: the empty one, or one with the project "web"
WebProject == init_project(VaultNew, <<119, 101, 98>>, NOW).vault
ApiVaults == {VaultNew, WebProject}

\* a call that takes &mut self: r is its result and the vault it leaves
Mutated(op, args, r) ==
    /\ sealed = None
    /\ r.ok => ops < MaxCalls
    /\ called' = Some([op |-> op, args |-> args, before |-> vault, at |-> now, result |-> r])
    /\ vault' = r.vault
    /\ ops' = IF r.ok THEN ops + 1 ELSE ops
    /\ UNCHANGED <<now, data, sealed, edits, outcome>>
    /\ UNCHANGED <<storageVars, sessionVars, ttlVars>>

\* vault.init_project(name)
InitProjectCall(name) ==
    /\ Mutated("init_project", [name |-> name], init_project(vault, name, now))
    /\ UNCHANGED ledger

Added(args, r) ==
    /\ Mutated("add_secret", args, r)
    /\ ledger' = IF r.ok THEN MapInsert(ledger, <<args.project, args.key>>, args) ELSE ledger

\* vault.add_secret(project, key, value, encryption_key, ttl_seconds)
AddSecretCall(project, key, value, encryption_key, ttl_seconds, nonce) ==
    Added([project |-> project, key |-> key, value |-> value,
           encryption_key |-> encryption_key, ttl_seconds |-> ttl_seconds],
          add_secret(vault, project, key, value, encryption_key, ttl_seconds, nonce, now))

\* vault.get_secret(project, key, encryption_key)
GetSecretCall(project, key, encryption_key) ==
    /\ sealed = None
    /\ called' = Some([op |-> "get_secret",
                       args |-> [project |-> project, key |-> key,
                                 encryption_key |-> encryption_key],
                       before |-> vault, at |-> now,
                       result |-> get_secret(vault, project, key, encryption_key, now)])
    /\ UNCHANGED <<vault, ops, now, ledger, data, sealed, edits, outcome>>
    /\ UNCHANGED <<storageVars, sessionVars, ttlVars>>

RemovedSecret(project, key, r) ==
    /\ Mutated("remove_secret", [project |-> project, key |-> key], r)
    /\ ledger' = IF r.ok THEN MapRemove(ledger, <<project, key>>) ELSE ledger

\* vault.remove_secret(project, key)
RemoveSecretCall(project, key) == RemovedSecret(project, key, remove_secret(vault, project, key))

RemovedProject(name, r) ==
    /\ Mutated("remove_project", [name |-> name], r)
    /\ ledger' = IF r.ok THEN [e \in {d \in DOMAIN ledger : d[1] # name} |-> ledger[e]]
                 ELSE ledger

\* vault.remove_project(name)
RemoveProjectCall(name) == RemovedProject(name, remove_project(vault, name))

\* vault.add_ssh_identity(name, public_key, private_key, encryption_key)
AddSshIdentityCall(name, private_key, nonce) ==
    /\ Mutated("add_ssh_identity", [name |-> name, private_key |-> private_key],
               add_ssh_identity(vault, name, PUBLIC_KEY, private_key, CallerKey, nonce, now))
    /\ UNCHANGED ledger

\* vault.add_ssh_server(name, username, ip_address, identity_name)
AddSshServerCall(name, username, ip_address, identity_name) ==
    /\ Mutated("add_ssh_server",
               [name |-> name, username |-> username, ip_address |-> ip_address,
                identity_name |-> identity_name],
               add_ssh_server(vault, name, username, ip_address, identity_name, now))
    /\ UNCHANGED ledger

\* the wall clock is read at another value (it may also have been set back)
Tick(t) ==
    /\ sealed = None
    /\ t # now
    /\ now' = t
    /\ called' = None
    /\ UNCHANGED <<vault, ops, ledger, data, sealed, edits, outcome>>
    /\ UNCHANGED <<storageVars, sessionVars, ttlVars>>

InitVault ==
    /\ vault \in ApiVaults
    /\ ops = 0
    /\ data = <<>>
    /\ sealed = None
    /\ edits = {}
    /\ outcome = None
    /\ StorageIdle
    /\ ApiIdle
    /\ SessionIdle
    /\ TtlIdle

\* projects and secrets over time
NextVault ==
    \/ \E name \in ProjectNames : InitProjectCall(name)
    \/ \E project \in ProjectNames, key \in SecretNames, secret \in SecretInputs :
            AddSecretCall(project, key, secret.value, CallerKey, secret.ttl, NONCE_B)
    \/ \E project \in ProjectNames, key \in SecretNames, encryption_key \in ApiKeys :
            GetSecretCall(project, key, encryption_key)
    \/ \E project \in ProjectNames, key \in SecretNames : RemoveSecretCall(project, key)
    \/ \E name \in ProjectNames : RemoveProjectCall(name)
    \/ \E t \in Clock : Tick(t)

SpecVault == InitVault /\ [][NextVault]_vars

\* projects, identities and servers: names taken and names free
NextNames ==
    \/ \E name \in ProjectNames : InitProjectCall(name)
    \/ AddSecretCall(<<119, 101, 98>>, <<68, 66, 95, 85, 82, 76>>, SECRET_VALUE, CallerKey,
                     None, NONCE_B)
    \/ \E name \in IdentityNames : AddSshIdentityCall(name, PRIVATE_SEED, NONCE_A)
    \/ \E username \in Usernames, identity_name \in IdentityNames :
            AddSshServerCall(SERVER_NAME, username, IP_ADDRESS, identity_name)
    \/ \E t \in {NOW, NOW + TTL_1H} : Tick(t)

\* the vaults these calls start from: the empty one, or one with the project "web"
\* and the identity "deploy"
WebWithIdentity ==
    add_ssh_identity(WebProject, IDENTITY_NAME, PUBLIC_KEY, PRIVATE_SEED, CallerKey, NONCE_A,
                     NOW).vault

InitNames ==
    /\ vault \in {VaultNew, WebWithIdentity}
    /\ ops = 0
    /\ data = <<>>
    /\ sealed = None
    /\ edits = {}
    /\ outcome = None
    /\ StorageIdle
    /\ ApiIdle
    /\ SessionIdle
    /\ TtlIdle

SpecNames == InitNames /\ [][NextNames]_vars

(***************************************************************************)
(* Properties of the Vault API: names.                                     *)
(***************************************************************************)
\* the call of the last step is a call of op
CalledOp(op) == called # None /\ called[1].op = op

\* the call of the last step failed with e and left the vault as it found it
Refused(e) ==
    /\ ~called[1].result.ok
    /\ called[1].result.err = e
    /\ vault = called[1].before

\* C14: init_project(n) with n already a project fails with ProjectAlreadyExists, and
\* add_ssh_identity(n, ...) with n already an identity fails with
\* IdentityAlreadyExists; the existing entry, and the vault, is left unchanged.
NameUniqueness ==
    /\ (CalledOp("init_project") /\ called[1].args.name \in DOMAIN called[1].before.projects)
            => Refused("ProjectAlreadyExists")
    /\ (CalledOp("add_ssh_identity")
        /\ called[1].args.name \in DOMAIN called[1].before.ssh_identities)
            => Refused("IdentityAlreadyExists")

NameUniquenessWitness ==
    /\ CalledOp("init_project")
    /\ called[1].args.name \in DOMAIN called[1].before.projects
    /\ DOMAIN called[1].before.projects[called[1].args.name].secrets # {}
    /\ called[1].result.err = "ProjectAlreadyExists"
    /\ vault.projects[called[1].args.name].secrets # EmptyMap

\* the SshServerConfig a call of add_ssh_server stores
ServerOfCall(call) ==
    [name |-> call.args.name, username |-> call.args.username,
     ip_address |-> call.args.ip_address, identity_name |-> call.args.identity_name,
     created_at |-> call.at]

ServerNameTaken ==
    /\ CalledOp("add_ssh_server")
    /\ called[1].args.name \in DOMAIN called[1].before.ssh_servers

\* C15 as stated: add_ssh_server(n, ...) called when a server named n already exists
\* fails with ServerAlreadyExists and leaves the existing server config unchanged.
ServerNameUniqueness == ServerNameTaken => Refused("ServerAlreadyExists")

\* C15: add_ssh_server(n, ...) called when a server named n already exists never
\* fails with ServerAlreadyExists: when the identity is known it succeeds and the
\* config of n is the new one, when it is not it fails with IdentityNotFound and
\* the config stays.
ServerNameReused ==
    ServerNameTaken =>
        /\ called[1].result.err # "ServerAlreadyExists"
        /\ IF called[1].args.identity_name \in DOMAIN called[1].before.ssh_identities
           THEN /\ called[1].result.ok
                /\ vault.ssh_servers[called[1].args.name] = ServerOfCall(called[1])
           ELSE Refused("IdentityNotFound")

ServerNameReusedWitness ==
    /\ ServerNameTaken
    /\ called[1].result.ok
    /\ called[1].before.ssh_servers[called[1].args.name].username # called[1].args.username
    /\ vault.ssh_servers[called[1].args.name].username = called[1].args.username

\* C16: add_ssh_server(name, user, ip, identity_name) fails with IdentityNotFound and
\* changes nothing when identity_name is not an identity at the call; otherwise it
\* succeeds, the servers are those of before and name, name carries the new username,
\* ip and identity_name, and every other server, project and identity is as before.
AddServerContract ==
    CalledOp("add_ssh_server") =>
        IF called[1].args.identity_name \notin DOMAIN called[1].before.ssh_identities
        THEN Refused("IdentityNotFound")
        ELSE /\ called[1].result.ok
             /\ DOMAIN vault.ssh_servers =
                    DOMAIN called[1].before.ssh_servers \cup {called[1].args.name}
             /\ \A n \in DOMAIN vault.ssh_servers :
                    vault.ssh_servers[n] =
                        IF n = called[1].args.name THEN ServerOfCall(called[1])
                        ELSE called[1].before.ssh_servers[n]
             /\ vault.projects = called[1].before.projects
             /\ vault.ssh_identities = called[1].before.ssh_identities

AddServerContractWitness ==
    /\ CalledOp("add_ssh_server")
    /\ called[1].args.identity_name \notin DOMAIN called[1].before.ssh_identities
    /\ DOMAIN called[1].before.ssh_identities # {}
    /\ called[1].result.err = "IdentityNotFound"

(***************************************************************************)
(* Properties of the Vault API: secrets and their expiry.                  *)
(***************************************************************************)
\* the secret the call of the last step names, in the vault the call found
SecretBefore == called[1].before.projects[called[1].args.project].secrets[called[1].args.key]

\* the call of the last step names a project and a secret that the vault held
NamesSecret ==
    /\ called[1].args.project \in DOMAIN called[1].before.projects
    /\ called[1].args.key \in DOMAIN called[1].before.projects[called[1].args.project].secrets

\* the expiry add_secret is to record for a TTL at a clock value
ExpiryFor(ttl_seconds, clock) ==
    IF ttl_seconds = None THEN None
    ELSE IF ttl_seconds[1] > U64_MAX - clock THEN None
    ELSE Some(clock + ttl_seconds[1])

\* the secret s is what add_secret is to store for the call
StoredFor(s, call) ==
    /\ s.key = call.args.key
    /\ s.created_at = call.at
    /\ s.expires_at = ExpiryFor(call.args.ttl_seconds, call.at)
    /\ decrypt([ciphertext |-> s.encrypted_value, nonce |-> s.nonce],
               call.args.encryption_key) = [ok |-> TRUE, err |-> "", value |-> call.args.value]

\* C17: add_secret fails with ProjectNotFound and changes nothing when the project is
\* absent; otherwise the project holds the secrets it held and one secret named name,
\* with created_at = now and expires_at = now + ttl, absent when the TTL is absent or
\* the sum overflows; a secret of the same name is replaced, nothing else changes.
AddSecretContract ==
    CalledOp("add_secret") =>
        IF called[1].args.project \notin DOMAIN called[1].before.projects
        THEN Refused("ProjectNotFound")
        ELSE /\ called[1].result.ok
             /\ DOMAIN vault.projects = DOMAIN called[1].before.projects
             /\ \A p \in DOMAIN vault.projects :
                    p # called[1].args.project => vault.projects[p] = called[1].before.projects[p]
             /\ DOMAIN vault.projects[called[1].args.project].secrets =
                    DOMAIN called[1].before.projects[called[1].args.project].secrets
                    \cup {called[1].args.key}
             /\ \A k \in DOMAIN vault.projects[called[1].args.project].secrets :
                    IF k = called[1].args.key
                    THEN StoredFor(vault.projects[called[1].args.project].secrets[k], called[1])
                    ELSE vault.projects[called[1].args.project].secrets[k] =
                            called[1].before.projects[called[1].args.project].secrets[k]

AddSecretContractWitness ==
    /\ CalledOp("add_secret")
    /\ NamesSecret
    /\ SecretBefore.expires_at # None
    /\ called[1].args.ttl_seconds = Some(U64_MAX)
    /\ vault.projects[called[1].args.project].secrets[called[1].args.key].expires_at = None

\* the error get_secret is to return before it decrypts, "" when there is none
ErrorBeforeDecryption(call) ==
    IF call.args.project \notin DOMAIN call.before.projects THEN "ProjectNotFound"
    ELSE IF call.args.key \notin DOMAIN call.before.projects[call.args.project].secrets
         THEN "SecretNotFound"
    ELSE IF /\ call.before.projects[call.args.project].secrets[call.args.key].expires_at # None
            /\ call.at >=
                 call.before.projects[call.args.project].secrets[call.args.key].expires_at[1]
         THEN "SecretExpired"
    ELSE ""

\* C18: get_secret returns ProjectNotFound if the project is absent, else
\* SecretNotFound if the name is absent, else SecretExpired if the secret is expired
\* at the current clock, and only then decrypts: an expired secret fetched with a
\* wrong key yields SecretExpired, and a decryption error is returned only when none
\* of the three applies.
GetSecretPrecedence ==
    CalledOp("get_secret") =>
        IF ErrorBeforeDecryption(called[1]) # ""
        THEN ~called[1].result.ok /\ called[1].result.err = ErrorBeforeDecryption(called[1])
        ELSE called[1].result.err \in {"", "CryptoError(DecryptionFailed)"}

GetSecretPrecedenceWitness ==
    /\ CalledOp("get_secret")
    /\ NamesSecret
    /\ called[1].args.encryption_key = OtherKey
    /\ ~decrypt([ciphertext |-> SecretBefore.encrypted_value, nonce |-> SecretBefore.nonce],
                OtherKey).ok
    /\ called[1].result.err = "SecretExpired"

\* C19: for a stored secret with expires_at = t, get_secret with the key it was added
\* under succeeds at every clock value below t and fails with SecretExpired at every
\* clock value from t on, with any key; a secret stored without an expiry is not
\* reported expired at any clock value.
ExpirySemantics ==
    (CalledOp("get_secret") /\ NamesSecret) =>
        IF SecretBefore.expires_at = None THEN called[1].result.err # "SecretExpired"
        ELSE IF called[1].at < SecretBefore.expires_at[1]
             THEN /\ called[1].result.err # "SecretExpired"
                  /\ called[1].args.encryption_key = CallerKey => called[1].result.ok
        ELSE ~called[1].result.ok /\ called[1].result.err = "SecretExpired"

ExpirySemanticsWitness ==
    /\ CalledOp("get_secret")
    /\ NamesSecret
    /\ SecretBefore.expires_at = Some(called[1].at)
    /\ called[1].args.encryption_key = CallerKey
    /\ called[1].result.err = "SecretExpired"

\* C20: after add_secret(p, n, v, k, None) has succeeded, and while neither p nor n
\* has been removed and n has not been added again, get_secret(p, n, k) returns
\* exactly v, and get_secret(p, n, k2) with another key fails with a decryption
\* error and returns no value.
SecretRoundTrip ==
    (/\ CalledOp("get_secret")
     /\ <<called[1].args.project, called[1].args.key>> \in DOMAIN ledger
     /\ ledger[<<called[1].args.project, called[1].args.key>>].ttl_seconds = None) =>
        IF called[1].args.encryption_key =
                ledger[<<called[1].args.project, called[1].args.key>>].encryption_key
        THEN called[1].result =
                Value(ledger[<<called[1].args.project, called[1].args.key>>].value)
        ELSE called[1].result = Error("CryptoError(DecryptionFailed)")

SecretRoundTripWitness ==
    /\ CalledOp("get_secret")
    /\ called[1].result = Value(SECRET_VALUE_2)
    /\ called[1].args.encryption_key = CallerKey
    /\ ops = MaxCalls
    /\ called[1].at # SecretBefore.created_at

(***************************************************************************)
(* Every operation of impl Vault (vault.rs 83-283), lookups included, on   *)
(* a vault that holds projects, secrets, an identity and a server.         *)
(***************************************************************************)
\* Vault::get_ssh_identity: the public key and the decrypted private key
get_ssh_identity(v, name, encryption_key) ==
    IF name \notin DOMAIN v.ssh_identities THEN Error("IdentityNotFound")
    ELSE IF decrypt([ciphertext |-> v.ssh_identities[name].encrypted_private_key,
                     nonce |-> v.ssh_identities[name].nonce], encryption_key).ok
         THEN Value(<<v.ssh_identities[name].public_key,
                      decrypt([ciphertext |-> v.ssh_identities[name].encrypted_private_key,
                               nonce |-> v.ssh_identities[name].nonce], encryption_key).value>>)
    ELSE Error("CryptoError(DecryptionFailed)")

\* Vault::get_ssh_server
get_ssh_server(v, name) ==
    IF name \in DOMAIN v.ssh_servers THEN Value(v.ssh_servers[name])
    ELSE Error("ServerNotFound")

\* Vault::has_ssh_server
has_ssh_server(v, name) == name \in DOMAIN v.ssh_servers

\* a call that takes &self: r is what it returns
Looked(op, args, r) ==
    /\ sealed = None
    /\ called' = Some([op |-> op, args |-> args, before |-> vault, at |-> now, result |-> r])
    /\ UNCHANGED <<vault, ops, now, ledger, data, sealed, edits, outcome>>
    /\ UNCHANGED <<storageVars, sessionVars, ttlVars>>

\* vault.get_ssh_identity(name, encryption_key)
GetSshIdentityCall(name, encryption_key) ==
    Looked("get_ssh_identity", [name |-> name, encryption_key |-> encryption_key],
           get_ssh_identity(vault, name, encryption_key))

\* vault.get_ssh_server(name)
GetSshServerCall(name) == Looked("get_ssh_server", [name |-> name], get_ssh_server(vault, name))

\* vault.has_ssh_server(name)
HasSshServerCall(name) ==
    Looked("has_ssh_server", [name |-> name], Value(has_ssh_server(vault, name)))

\* "API_TOKEN", "NOTES"
API_TOKEN == <<65, 80, 73, 95, 84, 79, 75, 69, 78>>
NOTES == <<78, 79, 84, 69, 83>>
ModelSecretNames == {<<68, 66, 95, 85, 82, 76>>, API_TOKEN}

\* the project "web" with DB_URL (1h) and API_TOKEN (no TTL), the empty project "api",
\* the identity "deploy" and the server "prod"
FullVault ==
    add_ssh_server(
        add_secret(
            init_project(
                add_secret(WebWithIdentity, <<119, 101, 98>>, <<68, 66, 95, 85, 82, 76>>,
                           SECRET_VALUE, CallerKey, Some(TTL_1H), NONCE_B, NOW).vault,
                <<97, 112, 105>>, NOW).vault,
            <<119, 101, 98>>, API_TOKEN, SECRET_VALUE_2, CallerKey, None, NONCE_A, NOW).vault,
        SERVER_NAME, USERNAME, IP_ADDRESS, IDENTITY_NAME, NOW).vault

InitModel ==
    /\ vault \in {VaultNew, FullVault}
    /\ ops = 0
    /\ data = <<>>
    /\ sealed = None
    /\ edits = {}
    /\ outcome = None
    /\ StorageIdle
    /\ ApiIdle
    /\ SessionIdle
    /\ TtlIdle

NextModel ==
    \/ \E name \in ProjectNames : InitProjectCall(name)
    \/ \E project \in ProjectNames, key \in ModelSecretNames :
            AddSecretCall(project, key, SECRET_VALUE, CallerKey, None, NONCE_B)
    \/ \E project \in ProjectNames, key \in ModelSecretNames :
            GetSecretCall(project, key, CallerKey)
    \/ \E project \in ProjectNames, key \in ModelSecretNames : RemoveSecretCall(project, key)
    \/ \E name \in ProjectNames : RemoveProjectCall(name)
    \/ \E name \in IdentityNames : AddSshIdentityCall(name, PRIVATE_SEED, NONCE_A)
    \/ \E identity_name \in IdentityNames :
            AddSshServerCall(SERVER_NAME, USERNAME_2, IP_ADDRESS, identity_name)
    \/ \E name \in IdentityNames, encryption_key \in ApiKeys :
            GetSshIdentityCall(name, encryption_key)
    \/ GetSshServerCall(SERVER_NAME)
    \/ HasSshServerCall(SERVER_NAME)
    \/ \E t \in {NOW, NOW + TTL_1H} : Tick(t)

SpecModel == InitModel /\ [][NextModel]_vars

\* what the call of the last step was to leave alone: the version, the identities
\* and the servers, and every project but the one named
OtherProjectsKept(project) ==
    /\ vault.version = called[1].before.version
    /\ vault.ssh_identities = called[1].before.ssh_identities
    /\ vault.ssh_servers = called[1].before.ssh_servers
    /\ \A p \in DOMAIN called[1].before.projects \ {project} :
            p \in DOMAIN vault.projects /\ vault.projects[p] = called[1].before.projects[p]

\* C21: remove_project(n) fails with ProjectNotFound when n is absent and otherwise
\* removes the project with every secret in it; remove_secret(p, n) fails with
\* ProjectNotFound when p is absent, with SecretNotFound when n is absent in p, and
\* otherwise removes only that secret; every other project, secret, identity and
\* server is left unchanged.
RemoveContract ==
    /\ CalledOp("remove_project") =>
        IF called[1].args.name \notin DOMAIN called[1].before.projects
        THEN Refused("ProjectNotFound")
        ELSE /\ called[1].result.ok
             /\ DOMAIN vault.projects = DOMAIN called[1].before.projects \ {called[1].args.name}
             /\ OtherProjectsKept(called[1].args.name)
    /\ CalledOp("remove_secret") =>
        IF called[1].args.project \notin DOMAIN called[1].before.projects
        THEN Refused("ProjectNotFound")
        ELSE IF called[1].args.key \notin
                    DOMAIN called[1].before.projects[called[1].args.project].secrets
             THEN Refused("SecretNotFound")
        ELSE /\ called[1].result.ok
             /\ DOMAIN vault.projects = DOMAIN called[1].before.projects
             /\ OtherProjectsKept(called[1].args.project)
             /\ vault.projects[called[1].args.project] =
                    [called[1].before.projects[called[1].args.project]
                        EXCEPT !.secrets = [k \in (DOMAIN @) \ {called[1].args.key} |-> @[k]]]

RemoveContractWitness ==
    /\ CalledOp("remove_project")
    /\ called[1].result.ok
    /\ Cardinality(DOMAIN called[1].before.projects[called[1].args.name].secrets) = 2
    /\ Cardinality(DOMAIN vault.projects) = 1
    /\ DOMAIN vault.ssh_servers # {}

\* C27: in every vault reached from Vault::new() through the operations of Vault, the
\* identity_name of each server is a key of ssh_identities.
ReferentialIntegrity ==
    \A s \in DOMAIN vault.ssh_servers :
        vault.ssh_servers[s].identity_name \in DOMAIN vault.ssh_identities

ReferentialIntegrityWitness ==
    /\ CalledOp("add_ssh_server")
    /\ called[1].result.ok
    /\ SERVER_NAME \in DOMAIN called[1].before.ssh_servers
    /\ IDENTITY_NAME_2 \notin DOMAIN FullVault.ssh_identities
    /\ vault.ssh_servers[SERVER_NAME].identity_name = IDENTITY_NAME_2

Lookups == {"get_secret", "get_ssh_identity", "get_ssh_server", "has_ssh_server"}

\* C28: every operation of Vault that returns an error leaves projects, secrets,
\* identities and servers as they were before the call, and the lookups get_secret,
\* get_ssh_identity, get_ssh_server and has_ssh_server never change the vault.
ErrorAtomicity ==
    called # None =>
        /\ ~called[1].result.ok => vault = called[1].before
        /\ called[1].op \in Lookups => vault = called[1].before

ErrorAtomicityWitness ==
    /\ CalledOp("add_ssh_identity")
    /\ called[1].result.err = "IdentityAlreadyExists"
    /\ called[1].before.ssh_servers # EmptyMap
    /\ vault = called[1].before

(***************************************************************************)
(* ttl::parse_ttl (ttl.rs 37-68).  A string is the sequence of its         *)
(* characters (Unicode scalar values); its bytes are their UTF-8           *)
(* encodings, of which only the lengths matter here.                       *)
(***************************************************************************)
SECONDS_PER_MINUTE == 60
SECONDS_PER_HOUR == 3600
SECONDS_PER_DAY == 86400
SECONDS_PER_WEEK == 604800

\* char::is_whitespace: the characters with the White_Space property
IsWhitespace(c) ==
    \/ c \in 9..13
    \/ c \in {32, 133, 160, 5760, 8232, 8233, 8239, 8287, 12288}
    \/ c \in 8192..8202

\* str::trim
RECURSIVE trim_start(_)
trim_start(chars) ==
    IF Len(chars) > 0 /\ IsWhitespace(chars[1]) THEN trim_start(Tail(chars)) ELSE chars

RECURSIVE trim_end(_)
trim_end(chars) ==
    IF Len(chars) > 0 /\ IsWhitespace(chars[Len(chars)])
    THEN trim_end(SubSeq(chars, 1, Len(chars) - 1))
    ELSE chars

trim(chars) == trim_end(trim_start(chars))

\* char::len_utf8
len_utf8(c) == IF c < 128 THEN 1 ELSE IF c < 2048 THEN 2 ELSE IF c < 65536 THEN 3 ELSE 4

\* str::is_char_boundary(len - 1) of a string that is not empty: the last byte is a
\* character of its own
LastByteIsChar(chars) == len_utf8(chars[Len(chars)]) = 1

\* the digits of an unsigned number, read from the left with checked arithmetic:
\* None on a character that is no ASCII digit and when the value passes u64::MAX
RECURSIVE Accumulate(_, _, _)
Accumulate(chars, i, acc) ==
    IF i > Len(chars) THEN Some(acc)
    ELSE IF chars[i] < 48 \/ chars[i] > 57 THEN None
    ELSE IF acc > (U64_MAX - (chars[i] - 48)) \div 10 THEN None
    ELSE Accumulate(chars, i + 1, 10 * acc + (chars[i] - 48))

\* str::parse::<u64>: an optional '+', then one or more ASCII digits
parse_u64(chars) ==
    IF Len(chars) = 0 THEN None
    ELSE IF Len(chars) = 1 /\ chars[1] \in {43, 45} THEN None
    ELSE IF chars[1] = 43 THEN Accumulate(chars, 2, 0)
    ELSE Accumulate(chars, 1, 0)

\* u64::checked_mul as it would be if it were a saturating_mul
saturating_mul(a, b) == IF a > U64_MAX \div b THEN Some(U64_MAX) ELSE Some(a * b)

\* u64::checked_mul, for b > 0
checked_mul(a, b) == IF a > U64_MAX \div b THEN None ELSE Some(a * b)

\* what parse_ttl does: it returns Ok(value), returns Err(err) (with the character of
\* InvalidUnit in unit), or panics
TtlOk(value) == [ok |-> TRUE, err |-> "", unit |-> 0, value |-> value, panicked |-> FALSE]
TtlErr(e, c) == [ok |-> FALSE, err |-> e, unit |-> c, value |-> 0, panicked |-> FALSE]
TtlPanic == [ok |-> FALSE, err |-> "", unit |-> 0, value |-> 0, panicked |-> TRUE]

\* match unit_char: the multiplier, 0 for a character that is no unit
Multiplier(unit_char) ==
    IF unit_char = 109 THEN SECONDS_PER_MINUTE
    ELSE IF unit_char = 104 THEN SECONDS_PER_HOUR
    ELSE IF unit_char = 100 THEN SECONDS_PER_DAY
    ELSE IF unit_char = 119 THEN SECONDS_PER_WEEK
    ELSE 0

\* parse_ttl after the split: num_str and the one character of unit
ParseSplit(num_str, unit_char, value) ==
    IF value = None THEN TtlErr("InvalidFormat", 0)
    ELSE IF value[1] = 0 THEN TtlErr("ZeroOrNegative", 0)
    ELSE IF Multiplier(unit_char) = 0 THEN TtlErr("InvalidUnit", unit_char)
    ELSE IF checked_mul(value[1], Multiplier(unit_char)) = None THEN TtlErr("Overflow", 0)
    ELSE TtlOk(checked_mul(value[1], Multiplier(unit_char))[1])

\* parse_ttl after the trim: split_at(input.len() - 1) panics when that byte offset
\* lies inside the last character
ParseTrimmed(trimmed) ==
    IF Len(trimmed) = 0 THEN TtlErr("InvalidFormat", 0)
    ELSE IF ~LastByteIsChar(trimmed) THEN TtlPanic
    ELSE ParseSplit(SubSeq(trimmed, 1, Len(trimmed) - 1), trimmed[Len(trimmed)],
                    parse_u64(SubSeq(trimmed, 1, Len(trimmed) - 1)))

parse_ttl(chars) == ParseTrimmed(trim(chars))

\* the characters of the inputs: 0 1 5, + -, space and no-break space, m h d w x, e-acute
TtlChars == {48, 49, 53, 43, 45, 32, 160, 109, 104, 100, 119, 120, 233}
Units == {109, 104, 100, 119}

\* the longest input made of any characters
MaxLen == 3

RECURSIVE Strings(_)
Strings(n) ==
    IF n = 0 THEN {<<>>}
    ELSE Strings(n - 1) \cup {Append(text, c) : text \in Strings(n - 1), c \in TtlChars}

\* the numbers written in full: small ones, the largest of the property test's range,
\* and for each unit the largest that fits and the smallest that does not
TtlNumbers ==
    {1, 2, 59, 9999, 3550, 3551, 24855, 24856, 596523, 596524, 35791394, 35791395, U64_MAX}

\* format!("{}{}", n, unit)
Formatted(n, unit_char) == Append(ToDecimal(n), unit_char)

\* the decimal of u64::MAX + 1 with a unit ("2147483648h" at this width), the sign and
\* the blanks around a number of several digits
LongInputs ==
    {<<50, 49, 52, 55, 52, 56, 51, 54, 52, 56, 104>>,
     <<43, 53, 57, 109>>, <<32, 53, 57, 109, 32>>, <<53, 57>>, <<53, 57, 120>>,
     <<48, 48, 48, 104>>, <<48, 48, 48, 53, 104>>}

TtlInputs ==
    Strings(MaxLen) \cup {Formatted(n, u) : n \in TtlNumbers, u \in Units} \cup LongInputs

\* parse_ttl(input)
ParseTtl ==
    /\ called = None
    /\ called' = Some([op |-> "parse_ttl", args |-> [input |-> input], result |-> parse_ttl(input)])
    /\ UNCHANGED <<input, now, ledger>>
    /\ UNCHANGED <<containerVars, storageVars, sessionVars>>

InitTtl ==
    /\ input \in TtlInputs
    /\ ContainerIdle
    /\ StorageIdle
    /\ ApiIdle
    /\ SessionIdle

SpecTtl == InitTtl /\ [][ParseTtl]_vars

\* C22: for every decimal n >= 1 that fits in a u64 and every unit u of m, h, d, w,
\* parse_ttl("{n}{u}") returns n times 60, 3600, 86400 or 604800 when the product fits
\* in a u64 and fails with Overflow otherwise; it never returns a wrapped value.
TtlParsingCorrectness ==
    CalledOp("parse_ttl") =>
        \A n \in TtlNumbers, u \in Units :
            input = Formatted(n, u) =>
                LET multiplier == CASE u = 109 -> 60 [] u = 104 -> 3600
                                    [] u = 100 -> 86400 [] u = 119 -> 604800
                IN IF n <= U64_MAX \div multiplier
                   THEN called[1].result = TtlOk(n * multiplier)
                   ELSE called[1].result = TtlErr("Overflow", 0)

TtlParsingCorrectnessWitness ==
    /\ CalledOp("parse_ttl")
    /\ input = Formatted(3551, 119)
    /\ called[1].result.err = "Overflow"

\* the input of the call of the last step without the blanks around it, the part of
\* it before the last character, and the last character
Trimmed == trim(input)
Body == SubSeq(Trimmed, 1, Len(Trimmed) - 1)
LastChar == Trimmed[Len(Trimmed)]

\* one or more ASCII digits
AllDigits(chars) == Len(chars) > 0 /\ \A i \in 1..Len(chars) : chars[i] \in 48..57

\* C23: parse_ttl returns InvalidFormat for an empty input, for a body that is not
\* made of digits and for a missing unit ("10", "h", "abc"); InvalidUnit(c) for a
\* digit body followed by a character c that is no digit and not one of m, h, d, w
\* ("10x"); ZeroOrNegative for a value of zero with a unit ("0h").
TtlRejectionKinds ==
    CalledOp("parse_ttl") =>
        IF Len(Trimmed) = 0 THEN called[1].result = TtlErr("InvalidFormat", 0)
        ELSE IF AllDigits(Trimmed) \/ ~AllDigits(Body)
             THEN called[1].result = TtlErr("InvalidFormat", 0)
        ELSE IF LastChar \notin Units
             THEN \/ called[1].result = TtlErr("InvalidUnit", LastChar)
                  \/ /\ Accumulate(Body, 1, 0) = Some(0)
                     /\ called[1].result = TtlErr("ZeroOrNegative", 0)
        ELSE Accumulate(Body, 1, 0) = Some(0) => called[1].result = TtlErr("ZeroOrNegative", 0)

\* the trimmed input is in the duration grammar: digits, one unit, a value above zero
\* and a product that fits
InGrammar(chars) ==
    /\ Len(chars) >= 2
    /\ AllDigits(SubSeq(chars, 1, Len(chars) - 1))
    /\ chars[Len(chars)] \in Units
    /\ Accumulate(SubSeq(chars, 1, Len(chars) - 1), 1, 0) # None
    /\ Accumulate(SubSeq(chars, 1, Len(chars) - 1), 1, 0)[1] > 0
    /\ Accumulate(SubSeq(chars, 1, Len(chars) - 1), 1, 0)[1]
            <= U64_MAX \div Multiplier(chars[Len(chars)])

\* C24: parse_ttl returns a value if and only if the input, trimmed of whitespace at
\* both ends, is one or more ASCII digits followed by exactly one of m, h, d, w, with
\* a value above zero and a product that fits in a u64; every other input, one with a
\* sign before the digits included, is rejected.
StrictTtlGrammar == CalledOp("parse_ttl") => (called[1].result.ok <=> InGrammar(Trimmed))

\* C29: parse_ttl is total: for every input, one whose last character is not a
\* single-byte character included, it returns a value or one of InvalidFormat,
\* InvalidUnit, Overflow, ZeroOrNegative, and never panics.
ParseTtlTotal ==
    CalledOp("parse_ttl") =>
        /\ ~called[1].result.panicked
        /\ \/ called[1].result.ok
           \/ called[1].result.err \in {"InvalidFormat", "InvalidUnit", "Overflow",
                                       "ZeroOrNegative"}

(***************************************************************************)
(* The commands vx audit (commands/audit.rs) and vx edit (commands/edit.rs)*)
(* on a vault file, while the wall clock moves.                            *)
(***************************************************************************)
LONG_LIVED_DAYS == 90

\* "password", "passwd", "secret", "token", "api_key", "apikey", "private_key",
\* "privatekey", "credential"
HIGH_RISK_PATTERNS ==
    <<<<112, 97, 115, 115, 119, 111, 114, 100>>,
      <<112, 97, 115, 115, 119, 100>>,
      <<115, 101, 99, 114, 101, 116>>,
      <<116, 111, 107, 101, 110>>,
      <<97, 112, 105, 95, 107, 101, 121>>,
      <<97, 112, 105, 107, 101, 121>>,
      <<112, 114, 105, 118, 97, 116, 101, 95, 107, 101, 121>>,
      <<112, 114, 105, 118, 97, 116, 101, 107, 101, 121>>,
      <<99, 114, 101, 100, 101, 110, 116, 105, 97, 108>>>>

\* str::to_lowercase of a name in ASCII
to_lowercase(text) == [i \in 1..Len(text) |-> IF text[i] \in 65..90 THEN text[i] + 32 ELSE text[i]]

\* now.saturating_sub(LONG_LIVED_DAYS * SECONDS_PER_DAY)
long_lived_threshold(clock) ==
    IF clock < LONG_LIVED_DAYS * SECONDS_PER_DAY THEN 0
    ELSE clock - LONG_LIVED_DAYS * SECONDS_PER_DAY

\* the loop over HIGH_RISK_PATTERNS as it would be without its break
RECURSIVE HighRiskEvery(_, _, _)
HighRiskEvery(key_lower, expires_at, i) ==
    IF i > Len(HIGH_RISK_PATTERNS) THEN 0
    ELSE (IF Contains(key_lower, HIGH_RISK_PATTERNS[i]) /\ expires_at = None THEN 1 ELSE 0)
         + HighRiskEvery(key_lower, expires_at, i + 1)

\* for pattern in HIGH_RISK_PATTERNS: what the loop adds to high_risk_count from the
\* i-th pattern on; it stops at the first pattern it counts
RECURSIVE HighRiskFrom(_, _, _)
HighRiskFrom(key_lower, expires_at, i) ==
    IF i > Len(HIGH_RISK_PATTERNS) THEN 0
    ELSE IF Contains(key_lower, HIGH_RISK_PATTERNS[i]) /\ expires_at = None THEN 1
    ELSE HighRiskFrom(key_lower, expires_at, i + 1)

\* the secrets of a vault as pairs <<project, key>>
SecretsOf(v) ==
    UNION {{<<p, k>> : k \in DOMAIN v.projects[p].secrets} : p \in DOMAIN v.projects}

SecretAt(v, pk) == v.projects[pk[1]].secrets[pk[2]]

\* the sum of what the pattern loop adds, over the secrets in pairs
RECURSIVE HighRiskCount(_, _)
HighRiskCount(v, pairs) ==
    IF pairs = {} THEN 0
    ELSE LET pk == CHOOSE pk \in pairs : TRUE
         IN HighRiskFrom(to_lowercase(pk[2]), SecretAt(v, pk).expires_at, 1)
            + HighRiskCount(v, pairs \ {pk})

\* the issues pushed and the counters after the loop over the projects, and whether
\* the pass over the identities went through: now - identity.created_at overflows when
\* the identity is younger than the clock, which panics in a build with overflow
\* checks and wraps in one without
audit(v, clock, overflow_checks) ==
    [ok |-> TRUE,
     err |-> "",
     total_secrets |-> Cardinality(SecretsOf(v)),
     expired_count |->
        Cardinality({pk \in SecretsOf(v) : is_expired(SecretAt(v, pk).expires_at, clock)}),
     long_lived_count |->
        Cardinality({pk \in SecretsOf(v) :
                        SecretAt(v, pk).created_at < long_lived_threshold(clock)}),
     high_risk_count |-> HighRiskCount(v, SecretsOf(v)),
     issues |->
        {<<"EXPIRED", pk>> : pk \in {e \in SecretsOf(v) :
                                        is_expired(SecretAt(v, e).expires_at, clock)}}
        \cup {<<"LONG-LIVED", pk>> : pk \in {e \in SecretsOf(v) :
                                        SecretAt(v, e).created_at < long_lived_threshold(clock)}}
        \cup {<<"HIGH-RISK", pk>> : pk \in {e \in SecretsOf(v) :
                                        HighRiskFrom(to_lowercase(e[2]),
                                                     SecretAt(v, e).expires_at, 1) > 0}},
     panicked |-> overflow_checks /\ \E n \in DOMAIN v.ssh_identities :
                                        v.ssh_identities[n].created_at > clock]

\* the result of a command that could not load the vault
NotLoaded(e) ==
    [ok |-> FALSE, err |-> e, total_secrets |-> 0, expired_count |-> 0,
     long_lived_count |-> 0, high_risk_count |-> 0, issues |-> {}, panicked |-> FALSE]

\* a command has run: what it loaded, the clock it read, what it returned and the vault
\* it held at its end
Commanded(op, args, loaded, r, after) ==
    /\ called' = Some([op |-> op, args |-> args, before |-> loaded.vault, at |-> now,
                       loaded |-> loaded.ok, result |-> r, after |-> after])
    /\ UNCHANGED <<ledger, containerVars, procs, created, ttlVars>>
    /\ UNCHANGED <<wrote, got, login, ran>>

\* vx audit: read_password, load_vault_with_key, the scan
Audited(loaded, overflow_checks) ==
    /\ Commanded("audit", [overflow_checks |-> overflow_checks], loaded,
                 IF loaded.ok THEN audit(loaded.vault, now, overflow_checks)
                 ELSE NotLoaded(loaded.err),
                 loaded.vault)
    /\ UNCHANGED <<files, saves, tempdir, now>>

AuditCommand(password, overflow_checks) ==
    /\ called = None
    /\ Audited(load_vault_with_key(files, password), overflow_checks)

\* a secret stored at a time with a TTL, as add_secret stores it
StoredSecret(key, ttl_seconds, clock) ==
    NewSecret(key, encrypt(SECRET_VALUE, CallerKey, NONCE_B), ttl_seconds, clock)

\* 120 days after the start
LATER == NOW + 120 * SECONDS_PER_DAY

\* "SECRET_TOKEN": a name with two of the patterns
SECRET_TOKEN == <<83, 69, 67, 82, 69, 84, 95, 84, 79, 75, 69, 78>>

\* how a secret came into the vault: at the start or 120 days later, with a TTL of an
\* hour or without
Stored(key, way) ==
    IF way = "old" THEN StoredSecret(key, None, NOW)
    ELSE IF way = "old, 1h" THEN StoredSecret(key, Some(TTL_1H), NOW)
    ELSE IF way = "new" THEN StoredSecret(key, None, LATER)
    ELSE StoredSecret(key, Some(TTL_1H), LATER)

\* the secrets of the project "web": each of DB_URL, API_TOKEN, NOTES, SECRET_TOKEN is
\* absent or stored in one of the ways
Ways ==
    {w \in [{<<68, 66, 95, 85, 82, 76>>, API_TOKEN, NOTES, SECRET_TOKEN} ->
                {"absent", "old", "old, 1h", "new", "new, 1h"}] :
        /\ w[<<68, 66, 95, 85, 82, 76>>] \in {"absent", "old, 1h", "new, 1h"}
        /\ w[API_TOKEN] \in {"absent", "new", "new, 1h"}
        /\ w[NOTES] \in {"absent", "old"}
        /\ w[SECRET_TOKEN] \in {"absent", "old"}}

SecretsStored(w) == [k \in {n \in DOMAIN w : w[n] # "absent"} |-> Stored(k, w[k])]

\* the vault with the project "web" holding those secrets, with or without the project
\* "api" holding an old API_TOKEN, with or without an identity made 120 days later
AuditVault(w, api, identity) ==
    [version |-> VAULT_VERSION,
     projects |->
        [p \in {<<119, 101, 98>>} \cup (IF api THEN {<<97, 112, 105>>} ELSE {}) |->
            IF p = <<119, 101, 98>>
            THEN [name |-> p, secrets |-> SecretsStored(w), created_at |-> NOW]
            ELSE [name |-> p, created_at |-> NOW,
                  secrets |-> [k \in {API_TOKEN} |-> Stored(k, "old")]]],
     ssh_identities |->
        [n \in (IF identity THEN {IDENTITY_NAME} ELSE {}) |->
            NewIdentity(n, PUBLIC_KEY, encrypt(PRIVATE_SEED, CallerKey, NONCE_A), LATER)],
     ssh_servers |-> EmptyMap]

AuditVaults == {AuditVault(w, api, identity) : w \in Ways, api \in BOOLEAN, identity \in BOOLEAN}

\* the vault of the audit scenario: API_TOKEN without TTL, DB_URL with a TTL of 1h,
\* NOTES made 120 days before
S6Vault ==
    AuditVault([k \in {<<68, 66, 95, 85, 82, 76>>, API_TOKEN, NOTES, SECRET_TOKEN} |->
                    IF k = API_TOKEN THEN "new"
                    ELSE IF k = NOTES THEN "old"
                    ELSE IF k = SECRET_TOKEN THEN "absent"
                    ELSE "new, 1h"],
               FALSE, FALSE)

\* the clock of an audit: the start, the expiry of the old TTLs, 90 days after the
\* start and the second after, 120 days after, and the expiry of the new TTLs
AuditClock ==
    {NOW, NOW + TTL_1H, NOW + LONG_LIVED_DAYS * SECONDS_PER_DAY,
     NOW + LONG_LIVED_DAYS * SECONDS_PER_DAY + 1, LATER, LATER + TTL_1H}

\* the vault file holds v, saved under "hunter2"
FileHolds(v) ==
    /\ files = [NoFiles EXCEPT ![VAULT_FILE] =
                    Some(save_vault(v, PW_HUNTER2, SALT_A, NONCE_A, FALSE))]
    /\ procs = [p \in Procs |-> NotRun]
    /\ saves = 1
    /\ created = Some([password |-> PW_HUNTER2, key |-> CallerKey])

InitAudit ==
    /\ ContainerIdle
    /\ \E v \in AuditVaults : FileHolds(v)
    /\ called = None
    /\ ledger = EmptyMap
    /\ SessionIdle
    /\ TtlIdle
    /\ now \in AuditClock

NextAudit == \E password \in Passwords, overflow_checks \in BOOLEAN :
                AuditCommand(password, overflow_checks)

SpecAudit == InitAudit /\ [][NextAudit]_vars

\* the substrings that make a name sensitive
RiskSubstrings == {HIGH_RISK_PATTERNS[i] : i \in 1..Len(HIGH_RISK_PATTERNS)}

\* the secrets of the audited vault that the report flags in a category
Flagged(category) == {pk \in SecretsOf(called[1].before) : <<category, pk>> \in called[1].result.issues}

\* C25: for every secret of the vault the audit flags EXPIRED iff expires_at is present
\* and <= now, LONG_LIVED iff created_at < now - 90*86400, and HIGH_RISK iff the
\* lowercased name contains one of the nine substrings and expires_at is absent; each
\* secret adds at most one to each count, and the total is the number of secrets.
AuditClassification ==
    (CalledOp("audit") /\ called[1].loaded) =>
        /\ \A pk \in SecretsOf(called[1].before) :
            /\ pk \in Flagged("EXPIRED") <=>
                    /\ SecretAt(called[1].before, pk).expires_at # None
                    /\ SecretAt(called[1].before, pk).expires_at[1] <= called[1].at
            /\ pk \in Flagged("LONG-LIVED") <=>
                    SecretAt(called[1].before, pk).created_at + 90 * 86400 < called[1].at
            /\ pk \in Flagged("HIGH-RISK") <=>
                    /\ \E pattern \in RiskSubstrings : Contains(to_lowercase(pk[2]), pattern)
                    /\ SecretAt(called[1].before, pk).expires_at = None
        /\ called[1].result.issues \subseteq
                {"EXPIRED", "LONG-LIVED", "HIGH-RISK"} \X SecretsOf(called[1].before)
        /\ called[1].result.expired_count = Cardinality(Flagged("EXPIRED"))
        /\ called[1].result.long_lived_count = Cardinality(Flagged("LONG-LIVED"))
        /\ called[1].result.high_risk_count = Cardinality(Flagged("HIGH-RISK"))
        /\ called[1].result.total_secrets = Cardinality(SecretsOf(called[1].before))

AuditClassificationWitness ==
    /\ CalledOp("audit")
    /\ called[1].loaded
    /\ called[1].before = S6Vault
    /\ called[1].at = LATER
    /\ called[1].result.issues =
            {<<"HIGH-RISK", <<(<<119, 101, 98>>), API_TOKEN>>>>,
             <<"LONG-LIVED", <<(<<119, 101, 98>>), NOTES>>>>}
    /\ called[1].result.high_risk_count = 1
    /\ called[1].result.long_lived_count = 1
    /\ called[1].result.expired_count = 0
    /\ called[1].result.total_secrets = 3

\* edit.rs lines 41-52: the TTL handed to add_secret for the expiry the secret has
RemainingTtl(old_ttl_expiry, clock) ==
    IF old_ttl_expiry # None /\ old_ttl_expiry[1] > clock
    THEN Some(old_ttl_expiry[1] - clock)
    ELSE None

\* edit.rs lines 25-55 on the loaded vault: the clock is read at line 44, and later
\* inside add_secret
Edit(v, project, key, secret_value, encryption_key, nonce, clock, later) ==
    IF project \notin DOMAIN v.projects THEN Err("SecretNotFound", v)
    ELSE IF key \notin DOMAIN v.projects[project].secrets THEN Err("SecretNotFound", v)
    ELSE add_secret(v, project, key, secret_value, encryption_key,
                    RemainingTtl(v.projects[project].secrets[key].expires_at, clock),
                    nonce, later)

\* storage::save_vault: the data goes to the temporary file, which is renamed
StoredBy(fs, v, password, salt, draws) ==
    [fs EXCEPT ![VAULT_FILE] = Some(SerializeWith(v, password, salt.salt, draws)),
               ![TEMP_FILE] = None]

\* the end of vx edit: r is what add_secret returned
Edited(args, dir, password, loaded, r, later, draws) ==
    /\ Commanded("edit", args, loaded, [ok |-> r.ok, err |-> r.err], r.vault)
    /\ tempdir' = dir
    /\ now' = IF r.ok THEN later ELSE now
    /\ saves' = IF r.ok THEN saves + 1 ELSE saves
    /\ files' = IF r.ok THEN StoredBy(files, r.vault, password, existing_salt(files), draws)
                ELSE files

\* vx edit once the vault is loaded (or not)
EditLoaded(args, dir, password, loaded, later, draws) ==
    Edited(args, dir, password, loaded,
           IF loaded.ok
           THEN Edit(loaded.vault, args.project, args.key, args.secret_value, loaded.key,
                     NONCE_B, now, later)
           ELSE Err(loaded.err, loaded.vault),
           later, draws)

\* vx edit once the password is known: the cached one when the vault accepts it, the
\* typed one otherwise
EditUnlocked(args, found, unlocked, typed, later, draws) ==
    EditLoaded(args, unlocked.dir,
               IF unlocked.prompted THEN typed ELSE found.password[1],
               load_vault_with_key(files, IF unlocked.prompted THEN typed
                                          ELSE found.password[1]),
               later, draws)

EditCached(args, found, typed, later, draws) ==
    EditUnlocked(args, found, WithCache(files, SESSION_ID, found), typed, later, draws)

\* the number of edits that are saved
MaxEdits == 1

\* vx edit project key
EditCommand(project, key, secret_value, typed, later, draws) ==
    /\ saves < 1 + MaxEdits
    /\ later >= now
    /\ EditCached([project |-> project, key |-> key, secret_value |-> secret_value],
                  get_cached_password(tempdir, SESSION_ID, derive_session_key(SESSION_ID)),
                  typed, later, draws)

\* the wall clock moves on
Passes(t) ==
    /\ t > now
    /\ now' = t
    /\ called' = None
    /\ UNCHANGED <<ledger, containerVars, storageVars, sessionVars, ttlVars>>

\* the vaults edited: "web" with DB_URL expiring an hour after the start, with or
\* without NOTES, which has no expiry
EditVaults ==
    {AuditVault([k \in {<<68, 66, 95, 85, 82, 76>>, API_TOKEN, NOTES, SECRET_TOKEN} |->
                    IF k = NOTES THEN notes
                    ELSE IF k = <<68, 66, 95, 85, 82, 76>> THEN "old, 1h"
                    ELSE "absent"],
                FALSE, FALSE) : notes \in {"absent", "old"}}

InitEdit ==
    /\ ContainerIdle
    /\ \E v \in EditVaults : FileHolds(v)
    /\ ApiIdle
    /\ SessionIdle
    /\ TtlIdle

NextEdit ==
    \/ \E project \in ProjectNames, key \in {<<68, 66, 95, 85, 82, 76>>, NOTES},
          secret_value \in ApiValues, typed \in Passwords, later \in {now, now + 1} :
            EditCommand(project, key, secret_value, typed, later,
                        [salt |-> SALT_B, nonce |-> NONCE_B])
    \/ \E t \in {NOW + TTL_1H - 1, NOW + TTL_1H, LATER} : Passes(t)

SpecEdit == InitEdit /\ [][NextEdit]_vars

\* C26: the edit command replaces the value of an existing secret and keeps its
\* expiry: expires_at after the edit equals expires_at before it, absent or present,
\* one that had already passed included.
EditPreservesTtl ==
    (CalledOp("edit") /\ called[1].result.ok) =>
        SecretAt(called[1].after, <<called[1].args.project, called[1].args.key>>).expires_at =
            SecretAt(called[1].before, <<called[1].args.project, called[1].args.key>>).expires_at

(***************************************************************************)
(* The fields of the container header (vault.rs 338-348) under changes of  *)
(* single bytes: magic 0..4, version 4..8, reserved 8..16, salt 16..32,    *)
(* nonce 32..44, ciphertext and tag from 44 on.                            *)
(***************************************************************************)
\* a byte of one field is changed; a second change is made only when one of the two
\* is in the reserved bytes
ChangeByte(kind, offset, value) ==
    /\ kind = "reserved" \/ edits \subseteq {"reserved"}
    /\ SetByte(kind, offset, value)

NextHeader ==
    \/ \E r \in Randoms : Save(PW_HUNTER2, r, FALSE)
    \/ \E offset \in 0..3 : ChangeByte("magic", offset, (data[offset + 1] + 1) % 256)
    \/ \E offset \in 4..7 : ChangeByte("version", offset, (data[offset + 1] + 1) % 256)
    \/ \E offset \in 8..(HEADER_SIZE - 1) : ChangeByte("reserved", offset, 255)
    \/ \E offset \in HEADER_SIZE..(HEADER_SIZE + SALT_SIZE - 1) :
            ChangeByte("salt", offset, (data[offset + 1] + 1) % 256)
    \/ \E offset \in (HEADER_SIZE + SALT_SIZE)..(CiphertextStart - 1) :
            ChangeByte("nonce", offset, (data[offset + 1] + 1) % 256)
    \/ \E offset \in {CiphertextStart, Len(data) - TAG_SIZE, Len(data) - 1} :
            ChangeByte("ciphertext", offset, (data[offset + 1] + 1) % 256)
    \/ \E password \in Passwords : Load(password)

SpecHeader == InitTamper /\ [][NextHeader]_vars

\* the data with its reserved bytes as save_vault_with_salt writes them
ZeroReserved(bytes) ==
    [i \in 1..Len(bytes) |-> IF i > 8 /\ i <= HEADER_SIZE THEN 0 ELSE bytes[i]]

\* C30: the outcome of load_vault does not depend on bytes 8..16 of its input: a
\* container loads, under the same password, to what the container with those bytes
\* zeroed loads to (the same vault or the same error), while a change to a byte of
\* the magic, version, salt, nonce or ciphertext of a saved container makes
\* load_vault fail.
ReservedBytesUnprotected ==
    outcome # None =>
        /\ outcome[1].result = load_vault(ZeroReserved(data), outcome[1].password)
        /\ edits \cap {"magic", "version", "salt", "nonce", "ciphertext"} # {}
                => ~outcome[1].result.ok

ReservedBytesUnprotectedWitness ==
    /\ outcome # None
    /\ edits = {"reserved"}
    /\ data # ZeroReserved(data)
    /\ sealed[1].vault = WebWithSecret
    /\ outcome[1].result.ok
    /\ outcome[1].result.vault.projects = WebWithSecret.projects

====
